---------------------------- MODULE Spec2Model ----------------------------
(***************************************************************************)
(* Model of the course recommendation engine of itmo_master_advisor        *)
(* (src/itmo_master_advisor/recommender/course_recommender.py).            *)
(*                                                                         *)
(* Text is modelled as a sequence of Unicode code points, so that          *)
(* str.lower() and the substring test `a in b` are computed, not assumed.  *)
(* Source strings are written with Lat("...") for the ASCII part and       *)
(* Cyr("...") for the Cyrillic part, the latter in a one-to-one            *)
(* transliteration (CyrLowerKeys / CyrUpperKeys below) that is decoded to  *)
(* the real code points.                                                   *)
(*                                                                         *)
(* Scores are exact rationals [num, den] (the code uses binary floats; the *)
(* weights 0.4, 0.3, 0.2, 0.1 are 12/30, 9/30, 6/30, 3/30).                *)
(***************************************************************************)
EXTENDS Integers, Sequences, FiniteSets, TLC

VARIABLES
    files,            \* the two catalog sources under settings.DATA_DIR
    engine,           \* "new" | "ready" | "raised": CourseRecommender()
    courses,          \* self.courses
    request,          \* the arguments of the caller's recommend_courses call
    recommendations,  \* the caller's list returned by recommend_courses
    plan,             \* the caller's result of get_study_plan
    report,           \* the caller's result of format_recommendations
    scored,           \* a direct _score_course call: arguments, locals, result
    profile,          \* a direct UserSkills.from_background call
    calls,            \* the frames of the recommend_courses calls in progress
    user_profiles,    \* bot.handlers.user_profiles: user id -> UserProfile
    update,           \* the update the bot handled last, and its reply
    conversation_cache, \* RAGRetriever.conversation_cache: user id -> list
    answer            \* a direct get_answer or clear_user_history call

\* The state of the bot's handlers and of the retriever's cache
dialog == <<user_profiles, update, conversation_cache, answer>>

vars == <<files, engine, courses, request, recommendations, plan, report,
          scored, profile, calls, dialog>>

-----------------------------------------------------------------------------
(* Text: code points, str.lower(), substring containment                   *)

LatUpperKeys == "ABCDEFGHIJKLMNOPQRSTUVWXYZ"
LatLowerKeys == "abcdefghijklmnopqrstuvwxyz"
DigitKeys == "0123456789"
PunctKeys == " ,-/:.;*"
PunctCodes == <<32, 44, 45, 47, 58, 46, 59, 42>>
\* U+0430..U+044F in alphabet order, then U+0451 (io)
CyrLowerKeys == "abwgdevzijklmnoprstufhc4657yx38q0"
\* U+0410..U+042F in alphabet order, then U+0401 (IO)
CyrUpperKeys == "ABWGDEVZIJKLMNOPRSTUFHC$^%&YX#@Q="

IndexIn(keys, ch) ==
    IF \E i \in 1..Len(keys) : SubSeq(keys, i, i) = ch
    THEN CHOOSE i \in 1..Len(keys) : SubSeq(keys, i, i) = ch
    ELSE 0

LatCode(ch) ==
    IF IndexIn(LatUpperKeys, ch) > 0 THEN 64 + IndexIn(LatUpperKeys, ch)
    ELSE IF IndexIn(LatLowerKeys, ch) > 0 THEN 96 + IndexIn(LatLowerKeys, ch)
    ELSE IF IndexIn(DigitKeys, ch) > 0 THEN 47 + IndexIn(DigitKeys, ch)
    ELSE PunctCodes[IndexIn(PunctKeys, ch)]

CyrCode(ch) ==
    IF IndexIn(CyrUpperKeys, ch) = 33 THEN 1025
    ELSE IF IndexIn(CyrUpperKeys, ch) > 0 THEN 1039 + IndexIn(CyrUpperKeys, ch)
    ELSE IF IndexIn(CyrLowerKeys, ch) = 33 THEN 1105
    ELSE IF IndexIn(CyrLowerKeys, ch) > 0 THEN 1071 + IndexIn(CyrLowerKeys, ch)
    ELSE PunctCodes[IndexIn(PunctKeys, ch)]

\* A function on 1..n as the tuple it is equal to (the value TLC stores).
Tuple(f, n) == SubSeq(f, 1, n)

Lat(s) == Tuple([i \in 1..Len(s) |-> LatCode(SubSeq(s, i, i))], Len(s))
Cyr(s) == Tuple([i \in 1..Len(s) |-> CyrCode(SubSeq(s, i, i))], Len(s))

\* str.lower() on one code point: A-Z, U+0410..U+042F and U+0401 have a
\* lower-case form; every other code point used here maps to itself.
LowerChar(c) ==
    IF c >= 65 /\ c <= 90 THEN c + 32
    ELSE IF c >= 1040 /\ c <= 1071 THEN c + 32
    ELSE IF c = 1025 THEN 1105
    ELSE c

lower(text) ==
    Tuple([i \in 1..Len(text) |-> LowerChar(text[i])], Len(text))

\* Python's `kw in text` for strings
Contains(text, kw) ==
    \E i \in 0..(Len(text) - Len(kw)) : SubSeq(text, i + 1, i + Len(kw)) = kw

\* " ".join(labels) and ", ".join(labels)
RECURSIVE Join(_, _)
Join(sep, labels) ==
    IF Len(labels) = 0 THEN <<>>
    ELSE IF Len(labels) = 1 THEN labels[1]
    ELSE labels[1] \o sep \o Join(sep, Tail(labels))

\* any(word in text for word in words)
AnyIn(words, text) == \E j \in 1..Len(words) : Contains(text, words[j])

\* Optional[str]: None is the empty set, a string s is {s}
None == {}
Some(s) == {s}
Value(opt) == CHOOSE s \in opt : TRUE
\* `if program:` is false for None and for the empty string
Truthy(opt) == opt # None /\ Value(opt) # <<>>

Min(a, b) == IF a <= b THEN a ELSE b
Max(a, b) == IF a >= b THEN a ELSE b

-----------------------------------------------------------------------------
(* SkillLevel, UserSkills, UserSkills.from_background                      *)

SkillLevel == {"none", "beginner", "intermediate", "advanced"}

Dimensions == {"python", "math", "statistics", "ml_basics", "deep_learning",
               "nlp", "computer_vision", "mlops"}

\* UserSkills(): every dimension SkillLevel.NONE
UserSkills == [d \in Dimensions |-> "none"]

background_python ==
    <<Lat("python"), Cyr("piton"), Cyr("programmirowan")>>
background_senior ==
    <<Lat("senior"), Lat("lead")>>
background_math ==
    <<Cyr("matematik"), Lat("math"), Cyr("fizik"), Cyr("mehmat")>>
background_ml ==
    <<Lat("ml"), Lat("machine learning"), Cyr("ma6inn")>>
background_ds ==
    <<Lat("data scien"), Lat("ds"), Cyr("analitik dannyh")>>
background_deep_learning ==
    <<Lat("deep learning"), Cyr("nejronn"), Lat("pytorch"), Lat("tensorflow")>>
background_nlp ==
    <<Lat("nlp"), Cyr("nlp"), Cyr("obrabotka tekst"), Lat("natural language")>>
background_cv ==
    <<Lat("computer vision"), Lat("cv"), Cyr("kompx8tern zren"), Lat("opencv")>>
background_mlops ==
    <<Lat("mlops"), Lat("devops"), Lat("docker"), Lat("kubernetes"),
      Lat("deploy")>>

\* if hit: skills.<dimension> = level
Assign(skills, hit, dimension, level) ==
    IF hit THEN [skills EXCEPT ![dimension] = level] ELSE skills

\* Fault: the seniority test made before the python keyword test
from_background_senior_first(background) ==
    LET b  == lower(background)
        s1 == Assign(UserSkills, AnyIn(background_senior, b),
                     "python", "advanced")
        s2 == Assign(s1, AnyIn(background_python, b),
                     "python", "intermediate")
        s3 == Assign(Assign(s2, AnyIn(background_math, b), "math", "advanced"),
                     AnyIn(background_math, b), "statistics", "intermediate")
        s4 == Assign(s3, AnyIn(background_ml, b), "ml_basics", "intermediate")
        s5 == Assign(Assign(s4, AnyIn(background_ds, b),
                            "ml_basics", "intermediate"),
                     AnyIn(background_ds, b), "statistics", "intermediate")
        s6 == Assign(s5, AnyIn(background_deep_learning, b),
                     "deep_learning", "intermediate")
        s7 == Assign(s6, AnyIn(background_nlp, b), "nlp", "intermediate")
        s8 == Assign(s7, AnyIn(background_cv, b),
                     "computer_vision", "intermediate")
    IN  Assign(s8, AnyIn(background_mlops, b), "mlops", "intermediate")

\* The assignments of from_background in source order; a later assignment
\* overwrites an earlier one.
from_background(background) ==
    LET b  == lower(background)
        s1 == Assign(UserSkills, AnyIn(background_python, b),
                     "python", "intermediate")
        s2 == Assign(s1, AnyIn(background_senior, b), "python", "advanced")
        s3 == Assign(Assign(s2, AnyIn(background_math, b), "math", "advanced"),
                     AnyIn(background_math, b), "statistics", "intermediate")
        s4 == Assign(s3, AnyIn(background_ml, b), "ml_basics", "intermediate")
        s5 == Assign(Assign(s4, AnyIn(background_ds, b),
                            "ml_basics", "intermediate"),
                     AnyIn(background_ds, b), "statistics", "intermediate")
        s6 == Assign(s5, AnyIn(background_deep_learning, b),
                     "deep_learning", "intermediate")
        s7 == Assign(s6, AnyIn(background_nlp, b), "nlp", "intermediate")
        s8 == Assign(s7, AnyIn(background_cv, b),
                     "computer_vision", "intermediate")
    IN  Assign(s8, AnyIn(background_mlops, b), "mlops", "intermediate")

-----------------------------------------------------------------------------
(* Course, the seed catalog and CourseRecommender._load_courses            *)

elective == Cyr("wybornaq")
required == Cyr("obqzatelxnaq")

\* The list literal of _get_default_courses; the comment before each record
\* gives the source line of its Course(...).
_get_default_courses ==
  <<
    \* line 157
    [name |-> Cyr("Ma6innoe obu4enie"),
     program |-> Lat("AI"), semester |-> 1,
     course_type |-> Cyr("obqzatelxnaq"), credits |-> 4,
     description |-> Cyr("Osnowy ") \o Lat("ML: ") \o Cyr("regressiq, klassifikaciq, klasterizaciq"),
     prerequisites |-> <<Lat("Python"), Cyr("Linejnaq algebra")>>,
     skills_gained |-> <<Lat("sklearn"), Lat("pandas"), Lat("ML pipelines")>>,
     difficulty |-> Lat("medium")],
    \* line 162
    [name |-> Cyr("Glubokoe obu4enie"),
     program |-> Lat("AI"), semester |-> 2,
     course_type |-> Cyr("obqzatelxnaq"), credits |-> 4,
     description |-> Cyr("Nejronnye seti, ") \o Lat("CNN, RNN, Transformers"),
     prerequisites |-> <<Cyr("Ma6innoe obu4enie")>>,
     skills_gained |-> <<Lat("PyTorch"), Cyr("Nejronnye seti")>>,
     difficulty |-> Lat("medium")],
    \* line 167
    [name |-> Cyr("Matemati4eskaq statistika"),
     program |-> Lat("AI"), semester |-> 1,
     course_type |-> Cyr("obqzatelxnaq"), credits |-> 3,
     description |-> Cyr("Statisti4eskie metody dlq ") \o Lat("ML"),
     prerequisites |-> <<Cyr("Teoriq weroqtnostej")>>,
     skills_gained |-> <<Cyr("Statisti4eskij analiz"), Lat("A/B ") \o Cyr("testy")>>,
     difficulty |-> Lat("medium")],
    \* line 172
    [name |-> Lat("MLOps"),
     program |-> Lat("AI"), semester |-> 3,
     course_type |-> Cyr("obqzatelxnaq"), credits |-> 3,
     description |-> Cyr("Razw0rtywanie i monitoring ") \o Lat("ML-") \o Cyr("sistem"),
     prerequisites |-> <<Cyr("Ma6innoe obu4enie"), Lat("Docker")>>,
     skills_gained |-> <<Lat("Docker"), Lat("CI/CD"), Lat("Model serving")>>,
     difficulty |-> Lat("medium")],
    \* line 178
    [name |-> Cyr("Kompx8ternoe zrenie"),
     program |-> Lat("AI"), semester |-> 2,
     course_type |-> Cyr("wybornaq"), credits |-> 3,
     description |-> Cyr("Obrabotka izobravenij, detekciq, segmentaciq"),
     prerequisites |-> <<Cyr("Glubokoe obu4enie")>>,
     skills_gained |-> <<Lat("OpenCV"), Lat("CNN"), Lat("Object Detection")>>,
     difficulty |-> Lat("high")],
    \* line 184
    [name |-> Cyr("Obrabotka estestwennogo qzyka"),
     program |-> Lat("AI"), semester |-> 2,
     course_type |-> Cyr("wybornaq"), credits |-> 3,
     description |-> Lat("NLP: ") \o Cyr("tokenizaciq, 3mbeddingi, transformery"),
     prerequisites |-> <<Cyr("Glubokoe obu4enie")>>,
     skills_gained |-> <<Lat("Transformers"), Lat("BERT"), Lat("Text processing")>>,
     difficulty |-> Lat("high")],
    \* line 190
    [name |-> Lat("Reinforcement Learning"),
     program |-> Lat("AI"), semester |-> 3,
     course_type |-> Cyr("wybornaq"), credits |-> 3,
     description |-> Cyr("Obu4enie s podkrepleniem"),
     prerequisites |-> <<Cyr("Glubokoe obu4enie"), Cyr("Teoriq weroqtnostej")>>,
     skills_gained |-> <<Lat("RL algorithms"), Lat("Gym"), Lat("Policy optimization")>>,
     difficulty |-> Lat("high")],
    \* line 196
    [name |-> Cyr("Generatiwnye modeli"),
     program |-> Lat("AI"), semester |-> 3,
     course_type |-> Cyr("wybornaq"), credits |-> 3,
     description |-> Lat("VAE, GAN, Diffusion models"),
     prerequisites |-> <<Cyr("Glubokoe obu4enie")>>,
     skills_gained |-> <<Lat("GANs"), Lat("Diffusion"), Lat("Image generation")>>,
     difficulty |-> Lat("high")],
    \* line 202
    [name |-> Lat("Big Data"),
     program |-> Lat("AI"), semester |-> 2,
     course_type |-> Cyr("wybornaq"), credits |-> 3,
     description |-> Lat("Spark, ") \o Cyr("raspredel0nnye wy4isleniq"),
     prerequisites |-> <<Lat("Python"), Lat("SQL")>>,
     skills_gained |-> <<Lat("Spark"), Lat("Hadoop"), Lat("Distributed computing")>>,
     difficulty |-> Lat("medium")],
    \* line 208
    [name |-> Cyr("Uprawlenie ") \o Lat("AI-") \o Cyr("produktom"),
     program |-> Lat("AI Product"), semester |-> 1,
     course_type |-> Cyr("obqzatelxnaq"), credits |-> 3,
     description |-> Lat("Product management ") \o Cyr("dlq ") \o Lat("AI-") \o Cyr("produktow"),
     prerequisites |-> <<>>,
     skills_gained |-> <<Lat("Product thinking"), Lat("Roadmap"), Lat("Metrics")>>,
     difficulty |-> Lat("medium")],
    \* line 213
    [name |-> Cyr("Dizajn ") \o Lat("AI-") \o Cyr("sistem"),
     program |-> Lat("AI Product"), semester |-> 2,
     course_type |-> Cyr("obqzatelxnaq"), credits |-> 3,
     description |-> Cyr("Proektirowanie arhitektury ") \o Lat("ML-") \o Cyr("sistem"),
     prerequisites |-> <<Cyr("Ma6innoe obu4enie")>>,
     skills_gained |-> <<Lat("System design"), Lat("ML architecture")>>,
     difficulty |-> Lat("medium")],
    \* line 218
    [name |-> Lat("AI Ethics"),
     program |-> Lat("AI Product"), semester |-> 2,
     course_type |-> Cyr("wybornaq"), credits |-> 2,
     description |-> Cyr("#tika iskusstwennogo intellekta"),
     prerequisites |-> <<>>,
     skills_gained |-> <<Lat("AI Ethics"), Lat("Responsible AI"), Lat("Bias detection")>>,
     difficulty |-> Lat("medium")]
  >>

\* What opening and parsing one source file can give.
FileNotFoundError == [status |-> "FileNotFoundError"]
JSONDecodeError == [status |-> "JSONDecodeError"]
JsonObject(fields) == [status |-> "ok", json |-> "object", data |-> fields]
\* valid JSON that is no object: data.get raises AttributeError
JsonArray == [status |-> "ok", json |-> "array"]

\* dict.get(key, default)
Get(d, key, default) == IF key \in DOMAIN d THEN d[key] ELSE default

\* Course(name=course_data['name'], program=program_name, ...): the record
\* keeps the dataclass's field names; difficulty takes its default.
Course(program_name, course_data) ==
    [name |-> course_data["name"],
     program |-> program_name,
     semester |-> Get(course_data, "semester", 1),
     course_type |-> Get(course_data, "course_type", required),
     credits |-> Get(course_data, "credits", 3),
     description |-> Get(course_data, "description", <<>>),
     prerequisites |-> Get(course_data, "prerequisites", <<>>),
     skills_gained |-> Get(course_data, "skills", <<>>),
     difficulty |-> Lat("medium")]

\* An exception that _load_courses does not catch: AttributeError on a
\* document that is no object, KeyError on a record without 'name'.
FileRaises(file) ==
    IF file.status # "ok" THEN FALSE
    ELSE IF file.json # "object" THEN TRUE
    ELSE \E i \in 1..Len(Get(file.data, "courses", <<>>)) :
             "name" \notin DOMAIN Get(file.data, "courses", <<>>)[i]

\* The records one source contributes; FileNotFoundError and
\* JSONDecodeError are caught and the source contributes none.
FileCourses(file) ==
    IF file.status # "ok" THEN <<>>
    ELSE LET program_name == Get(file.data, "name", Lat("Unknown"))
             records == Get(file.data, "courses", <<>>)
         IN  Tuple([i \in 1..Len(records) |->
                       Course(program_name, records[i])], Len(records))

LoadRaises(fs) == IF FileRaises(fs[1]) THEN TRUE ELSE FileRaises(fs[2])

\* Fault: no `if not courses`
_load_courses_no_fallback(fs) == FileCourses(fs[1]) \o FileCourses(fs[2])

\* Fault: the try statement around the loop, so that the first source that
\* cannot be read ends the loading
_load_courses_try_around_loop(fs) ==
    IF fs[1].status # "ok"
    THEN _get_default_courses
    ELSE IF FileCourses(fs[1]) \o (IF fs[2].status # "ok" THEN <<>>
                                   ELSE FileCourses(fs[2])) = <<>>
         THEN _get_default_courses
         ELSE FileCourses(fs[1]) \o FileCourses(fs[2])

\* _load_courses for sources none of which raises: the records of
\* ai_program.json, then those of ai_product_program.json, and the seed
\* catalog `if not courses`.
_load_courses(fs) ==
    IF FileCourses(fs[1]) \o FileCourses(fs[2]) = <<>>
    THEN _get_default_courses
    ELSE FileCourses(fs[1]) \o FileCourses(fs[2])

\* The documents the model puts in the two files.
ai_program_json ==
    JsonObject([name |-> Lat("AI"), courses |-> <<
     [name |-> Lat("NLP ") \o Cyr("praktikum"), semester |-> 2,
      course_type |-> Cyr("wybornaq"), credits |-> 3,
      description |-> Lat("Text mining ") \o Cyr("i ") \o Lat("LLM"),
      prerequisites |-> <<Lat("Python"), Cyr("Ma6innoe obu4enie")>>,
      skills |-> <<Lat("NLP"), Lat("Text processing")>>],
     [name |-> Lat("Deep Learning"), semester |-> 5,
      course_type |-> Cyr("wybornaq"),
      description |-> Cyr("Glubokoe obu4enie: ") \o Lat("transformer, computer vision"),
      prerequisites |-> <<Lat("ML ") \o Cyr("i statistika")>>,
      skills |-> <<Lat("PyTorch"), Lat("Computer Vision"), Lat("Docker deploy")>>],
     [name |-> Cyr("Algoritmy"), semester |-> 1,
      course_type |-> Cyr("wybornaq"), credits |-> 3],
     [name |-> Cyr("Bazy dannyh"), course_type |-> Cyr("wybornaq")],
     [name |-> Cyr("Filosofiq"), description |-> Lat("NLP"),
      skills |-> <<Lat("Text")>>],
     [name |-> Cyr("#tika"), semester |-> 1,
      course_type |-> Cyr("Wybornaq"), credits |-> 2],
     [name |-> Cyr("Praktika"), semester |-> 0,
      course_type |-> Cyr("wybornaq"), credits |-> 0]
    >>])

ai_product_program_json ==
    JsonObject([name |-> Lat("AI Product"), courses |-> <<
     [name |-> Cyr("Algoritmy"), semester |-> 1,
      course_type |-> Cyr("wybornaq"), credits |-> 3],
     [name |-> Lat("MLOps"), semester |-> 3,
      course_type |-> Cyr("wybornaq"), credits |-> 3,
      description |-> Lat("Deploy: Docker, Kubernetes"),
      prerequisites |-> <<Lat("HTML"), Cyr("Matemati4eskaq statistika"), Lat("Deep Python")>>,
      skills |-> <<Lat("Docker")>>],
     [name |-> Cyr("Marketing"), semester |-> 2,
      course_type |-> Lat("elective"), credits |-> 3],
     [name |-> Lat("Text mining")]
    >>])

\* {"courses": []} and {}
no_courses_json == JsonObject([courses |-> <<>>])
empty_object_json == JsonObject([x \in {} |-> <<>>])

-----------------------------------------------------------------------------
(* Numbers: the float scores as exact fractions in lowest terms            *)

RECURSIVE GCD(_, _)
GCD(a, b) == IF b = 0 THEN a ELSE GCD(b, a % b)

\* num/den in lowest terms (num >= 0, den > 0)
Frac(num, den) ==
    LET g == GCD(num, den) IN [num |-> num \div g, den |-> den \div g]

FracAdd(a, b) == Frac(a.num * b.den + b.num * a.den, a.den * b.den)
FracMul(a, b) == Frac(a.num * b.num, a.den * b.den)
FracLess(a, b) == a.num * b.den < b.num * a.den
FracLeq(a, b) == a.num * b.den <= b.num * a.den
FracMin(a, b) == IF FracLeq(a, b) THEN a ELSE b

-----------------------------------------------------------------------------
(* CourseRecommender._score_course and the three sub-scores                *)

\* level.value in ["intermediate", "advanced"]
IsSkilled(level) == level \in {"intermediate", "advanced"}
\* level.value in ["none", "beginner"]
IsNovice(level) == level \in {"none", "beginner"}

\* int(b)
Bit(b) == IF b THEN 1 ELSE 0

prereq_python == Lat("python")
prereq_ml == <<Cyr("ma6inn"), Lat("ml")>>
prereq_deep == <<Cyr("glubok"), Lat("deep")>>
prereq_statistics == <<Cyr("statist"), Cyr("weroqtn")>>
prereq_math == <<Cyr("algebr"), Lat("math")>>

\* Fault: `if` for `elif`, every branch of the chain counting on its own
PrerequisiteMetEachBranch(prereq, user_skills) ==
    LET prereq_lower == lower(prereq) IN
      Bit(Contains(prereq_lower, prereq_python)
          /\ IsSkilled(user_skills.python))
    + Bit(AnyIn(prereq_ml, prereq_lower) /\ IsSkilled(user_skills.ml_basics))
    + Bit(AnyIn(prereq_deep, prereq_lower)
          /\ IsSkilled(user_skills.deep_learning))
    + Bit(AnyIn(prereq_statistics, prereq_lower)
          /\ IsSkilled(user_skills.statistics))
    + Bit(AnyIn(prereq_math, prereq_lower) /\ IsSkilled(user_skills.math))

\* Fault: met_prerequisites counted with PrerequisiteMetEachBranch
RECURSIVE MetEachBranch(_, _)
MetEachBranch(prerequisites, user_skills) ==
    IF prerequisites = <<>> THEN 0
    ELSE PrerequisiteMetEachBranch(Head(prerequisites), user_skills)
         + MetEachBranch(Tail(prerequisites), user_skills)

_check_prerequisites_each_branch(course, user_skills) ==
    IF course.prerequisites = <<>> THEN Frac(1, 1)
    ELSE Frac(MetEachBranch(course.prerequisites, user_skills),
              Len(course.prerequisites))

\* One pass of the if/elif chain: whether met_prerequisites is incremented
\* for this label.
PrerequisiteMet(prereq, user_skills) ==
    LET prereq_lower == lower(prereq) IN
    IF Contains(prereq_lower, prereq_python) /\ IsSkilled(user_skills.python)
    THEN TRUE
    ELSE IF AnyIn(prereq_ml, prereq_lower)
    THEN IsSkilled(user_skills.ml_basics)
    ELSE IF AnyIn(prereq_deep, prereq_lower)
    THEN IsSkilled(user_skills.deep_learning)
    ELSE IF AnyIn(prereq_statistics, prereq_lower)
    THEN IsSkilled(user_skills.statistics)
    ELSE IF AnyIn(prereq_math, prereq_lower)
    THEN IsSkilled(user_skills.math)
    ELSE FALSE

_check_prerequisites(course, user_skills) ==
    IF course.prerequisites = <<>> THEN Frac(1, 1)
    ELSE LET met_prerequisites ==
                 Cardinality({i \in 1..Len(course.prerequisites) :
                     PrerequisiteMet(course.prerequisites[i], user_skills)})
         IN  Frac(met_prerequisites, Len(course.prerequisites))

growth_nlp == <<Lat("nlp"), Lat("text")>>
growth_cv == <<Lat("cv"), Lat("vision"), Lat("image")>>
growth_deep == <<Lat("pytorch"), Cyr("nejron")>>
growth_mlops == <<Lat("docker"), Lat("deploy")>>

\* Fault: new_skills / 2 without the cap at 1.0
_calculate_growth_potential_uncapped(course, user_skills) ==
    IF course.skills_gained = <<>> THEN Frac(1, 2)
    ELSE Frac(Bit(AnyIn(growth_nlp,
                        lower(Join(Lat(" "), course.skills_gained)))
                  /\ IsNovice(user_skills.nlp))
            + Bit(AnyIn(growth_cv,
                        lower(Join(Lat(" "), course.skills_gained)))
                  /\ IsNovice(user_skills.computer_vision))
            + Bit(AnyIn(growth_deep,
                        lower(Join(Lat(" "), course.skills_gained)))
                  /\ IsNovice(user_skills.deep_learning))
            + Bit(AnyIn(growth_mlops,
                        lower(Join(Lat(" "), course.skills_gained)))
                  /\ IsNovice(user_skills.mlops)), 2)

_calculate_growth_potential(course, user_skills) ==
    IF course.skills_gained = <<>> THEN Frac(1, 2)
    ELSE LET course_skills_text == lower(Join(Lat(" "), course.skills_gained))
             new_skills ==
                   Bit(AnyIn(growth_nlp, course_skills_text)
                       /\ IsNovice(user_skills.nlp))
                 + Bit(AnyIn(growth_cv, course_skills_text)
                       /\ IsNovice(user_skills.computer_vision))
                 + Bit(AnyIn(growth_deep, course_skills_text)
                       /\ IsNovice(user_skills.deep_learning))
                 + Bit(AnyIn(growth_mlops, course_skills_text)
                       /\ IsNovice(user_skills.mlops))
         IN  FracMin(Frac(new_skills, 2), Frac(1, 1))

high_value_keywords ==
    <<Lat("deep learning"), Cyr("glubokoe"), Lat("nlp"),
      Lat("computer vision"), Lat("mlops"), Lat("transformer"), Lat("llm"),
      Cyr("generatiwn")>>

_calculate_career_value(course) ==
    LET course_text == lower(course.name \o Lat(" ") \o course.description)
        matches == Cardinality({j \in 1..Len(high_value_keywords) :
                       Contains(course_text, high_value_keywords[j])})
    IN  FracMin(Frac(matches, 3), Frac(1, 1))

\* Fault: the name and the description compared as written, not lower-cased
RECURSIVE InterestMatchesCaseKept(_, _)
InterestMatchesCaseKept(course, interests) ==
    IF interests = <<>> THEN <<>>
    ELSE LET interest_lower == lower(Head(interests))
             hit == \/ Contains(course.name, interest_lower)
                    \/ Contains(course.description, interest_lower)
         IN  (IF hit THEN <<Head(interests)>> ELSE <<>>)
             \o InterestMatchesCaseKept(course, Tail(interests))

\* The interests, in order, that are found in the name or the description
\* (interest_matches).
RECURSIVE InterestMatches(_, _)
InterestMatches(course, interests) ==
    IF interests = <<>> THEN <<>>
    ELSE LET interest_lower == lower(Head(interests))
             hit == \/ Contains(lower(course.name), interest_lower)
                    \/ Contains(lower(course.description), interest_lower)
         IN  (IF hit THEN <<Head(interests)>> ELSE <<>>)
             \o InterestMatches(course, Tail(interests))

reason_interests == Cyr("Sootwetstwuet interesam: ")
reason_good_base == Cyr("Horo6aq baza dlq 3togo kursa")
reason_preparation == Cyr("Movet potrebowatxsq dopolnitelxnaq podgotowka")
reason_new_skills == Cyr("Pomovet oswoitx nowye wostrebowannye nawyki")
reason_demand == Cyr("Wysokaq wostrebowannostx na rynke")
reason_general == Cyr("Ob5ij wybornyj kurs")

\* Fault: the interest term without its cap
InterestScoreUncapped(interest_matches) ==
    Frac(4 * Len(interest_matches), 10)

\* min(interest_score, 0.4), interest_score being 0.4 per matching interest
InterestScore(interest_matches) ==
    FracMin(Frac(4 * Len(interest_matches), 10), Frac(4, 10))

\* Fault: the weights of readiness and growth exchanged
ScoreWeightsExchanged(interest_matches, readiness_score, growth_score, career_score) ==
    FracAdd(FracAdd(FracAdd(
        FracMin(Frac(4 * Len(interest_matches), 10), Frac(4, 10)),
        FracMul(readiness_score, Frac(2, 10))),
        FracMul(growth_score, Frac(3, 10))),
        FracMul(career_score, Frac(1, 10)))

\* score: the four weighted terms, added in source order
Score(interest_matches, readiness_score, growth_score, career_score) ==
    FracAdd(FracAdd(FracAdd(
        InterestScore(interest_matches),
        FracMul(readiness_score, Frac(3, 10))),
        FracMul(growth_score, Frac(2, 10))),
        FracMul(career_score, Frac(1, 10)))

\* Fault: the growth note appended before the readiness note
ReasonsGrowthFirst(interest_matches, readiness_score, growth_score, career_score) ==
    (IF interest_matches # <<>>
     THEN <<reason_interests \o Join(Lat(", "), interest_matches)>>
     ELSE <<>>)
    \o (IF FracLess(Frac(7, 10), growth_score)
        THEN <<reason_new_skills>> ELSE <<>>)
    \o (IF FracLess(Frac(7, 10), readiness_score) THEN <<reason_good_base>>
        ELSE IF FracLess(readiness_score, Frac(3, 10))
        THEN <<reason_preparation>>
        ELSE <<>>)
    \o (IF FracLess(Frac(7, 10), career_score)
        THEN <<reason_demand>> ELSE <<>>)

\* reasons, in the order they are appended
Reasons(interest_matches, readiness_score, growth_score, career_score) ==
    (IF interest_matches # <<>>
     THEN <<reason_interests \o Join(Lat(", "), interest_matches)>>
     ELSE <<>>)
    \o (IF FracLess(Frac(7, 10), readiness_score) THEN <<reason_good_base>>
        ELSE IF FracLess(readiness_score, Frac(3, 10))
        THEN <<reason_preparation>>
        ELSE <<>>)
    \o (IF FracLess(Frac(7, 10), growth_score)
        THEN <<reason_new_skills>> ELSE <<>>)
    \o (IF FracLess(Frac(7, 10), career_score)
        THEN <<reason_demand>> ELSE <<>>)

\* "; ".join(reasons) if reasons else the general statement
Reasoning(reasons) ==
    IF reasons # <<>> THEN Join(Lat("; "), reasons) ELSE reason_general

\* (score, reasoning)
_score_course(course, user_skills, interests) ==
    LET interest_matches == InterestMatches(course, interests)
        readiness_score == _check_prerequisites(course, user_skills)
        growth_score == _calculate_growth_potential(course, user_skills)
        career_score == _calculate_career_value(course)
    IN  [score |-> Score(interest_matches, readiness_score, growth_score,
                         career_score),
         reasoning |-> Reasoning(Reasons(interest_matches, readiness_score,
                                         growth_score, career_score))]

\* The locals of _score_course when it returns, and interest_component,
\* the min(interest_score, 0.4) that line 313 adds to the score.
_score_course_locals(course, user_skills, interests) ==
    [interest_matches |-> InterestMatches(course, interests),
     interest_component |->
         InterestScore(InterestMatches(course, interests)),
     readiness_score |-> _check_prerequisites(course, user_skills),
     growth_score |-> _calculate_growth_potential(course, user_skills),
     career_score |-> _calculate_career_value(course)]

-----------------------------------------------------------------------------
(* Inputs of the model                                                     *)

MaxLimit == 3         \* max_recommendations ranges over 1..MaxLimit
MaxSemesters == 3     \* semesters ranges over 1..MaxSemesters

\* What ai_program.json and ai_product_program.json hold at construction
FileStates ==
    {<<FileNotFoundError, FileNotFoundError>>,
     <<JSONDecodeError, JSONDecodeError>>,
     <<empty_object_json, no_courses_json>>,
     <<ai_program_json, FileNotFoundError>>,
     <<JSONDecodeError, ai_product_program_json>>,
     <<ai_program_json, ai_product_program_json>>,
     <<JsonArray, ai_product_program_json>>}

Backgrounds ==
    {<<>>, Lat("Senior ML engineer: deep learning, NLP, Docker")}

InterestLists == {<<>>, <<Lat("text"), Cyr("dannyh"), Lat("nlp")>>}

\* The interests of a direct _score_course call
ScoredInterestLists ==
    InterestLists \union {<<Lat("Deep"), Lat("deep"), Lat("Transformer")>>,
                          <<Lat("NLP")>>}

\* A background that mentions Python and machine learning
python_and_ml_background == Lat("Python, ") \o Cyr("ma6innoe obu4enie")

Programs == {None, Some(<<>>), Some(Lat("ai product")), Some(Lat("Robotics"))}

Limits == 1..MaxLimit
Horizons == 1..MaxSemesters

\* Profiles for a direct _score_course call: every dimension at every
\* level, against every level of the other dimensions.
SkillProfiles ==
    {[x \in Dimensions |-> IF x = d THEN l ELSE b] :
        d \in Dimensions, l \in SkillLevel, b \in SkillLevel}

\* The profiles of a direct _score_course call: those, and the one that
\* from_background derives from python_and_ml_background
python_and_ml_skills == from_background(python_and_ml_background)
ScoredProfiles == SkillProfiles \union {python_and_ml_skills}

\* Phrases a background of a direct from_background call is written with:
\* one for each keyword test of from_background (two for the seniority
\* test), and one that no test finds.
BackgroundPhrases ==
    <<Lat("Python"), Lat("Senior"), Lat("Team Lead"), Cyr("Mehmat"),
      Lat("ML"), Cyr("Analitik dannyh"), Lat("PyTorch"), Cyr("NLP"),
      Lat("OpenCV"), Lat("Docker"), Cyr("Buhgalter")>>

MaxPhrases == 2       \* a background holds at most MaxPhrases phrases, or all

\* The phrases numbered in `chosen`, in order, joined by ", "
PhraseText(chosen) ==
    Join(Lat(", "), SelectSeq(BackgroundPhrases,
                        LAMBDA ph : \E k \in chosen : BackgroundPhrases[k] = ph))

\* The backgrounds of a direct from_background call, "" among them
ProfileBackgrounds ==
    {PhraseText(chosen) : chosen \in
        {c \in SUBSET (1..Len(BackgroundPhrases)) :
            \/ Cardinality(c) <= MaxPhrases
            \/ c = 1..Len(BackgroundPhrases)}}

\* The labels of the three menu buttons and of the skip button
compare_button == <<127891>> \o Lat(" ") \o Cyr("Srawnitx programmy")
recommend_button == <<128218>> \o Lat(" ") \o Cyr("Pomo5x s wyborom kursow")
question_button == <<10067>> \o Lat(" ") \o Cyr("Zadatx wopros")
skip_button == Cyr("Propustitx")
MenuButtons == {compare_button, recommend_button, question_button}

\* The users who write to the bot
UserIds == {1, 2}

\* The texts of the messages they send: the buttons and a free text.
\* (filters.TEXT passes no message with an empty text.)
MessageTexts == MenuButtons \union {skip_button, Lat("NLP, MLOps")}

\* str.isspace() on one code point, for the code points used here
IsSpace(c) == c \in {9, 10, 11, 12, 13, 32}

\* str.split(): the maximal runs of code points that are not whitespace
RECURSIVE split(_)
split(text) ==
    IF text = <<>> THEN <<>>
    ELSE IF IsSpace(text[1]) THEN split(Tail(text))
    ELSE LET n == CHOOSE k \in 1..Len(text) :
                      /\ \A j \in 1..k : ~IsSpace(text[j])
                      /\ k = Len(text) \/ IsSpace(text[k + 1])
         IN  <<SubSeq(text, 1, n)>> \o split(SubSeq(text, n + 1, Len(text)))

\* [i.strip() for i in message_text.replace(",", " ").split()]
\* (a word of split() has no whitespace for strip() to remove)
ParseInterests(message_text) ==
    split(Tuple([i \in 1..Len(message_text) |->
                    IF message_text[i] = 44 THEN 32 ELSE message_text[i]],
                Len(message_text)))

\* profile.interests or [default]
default_interests == <<Cyr("ma6innoe obu4enie")>>

\* What the bot's profiles can hold and pass to get_course_recommendations
BotBackgrounds == MessageTexts
BotInterests ==
    {default_interests} \union {ParseInterests(t) : t \in BotBackgrounds}

\* The catalogs an engine of the model can hold, and their courses
Catalogs == {_load_courses(fs) : fs \in {f \in FileStates : ~LoadRaises(f)}}
CatalogCourses == UNION {{cs[n] : n \in 1..Len(cs)} : cs \in Catalogs}

\* from_background and _score_course are evaluated once for each input the
\* engine of the model is called with, and looked up afterwards.
\* (f @@ << >> is f, held as an explicit table.)
EvaluatedSkills ==
    [b \in Backgrounds \union BotBackgrounds |-> from_background(b)] @@ << >>
EvaluatedScores ==
    [k \in CatalogCourses
           \X {EvaluatedSkills[b] : b \in Backgrounds \union BotBackgrounds}
           \X (InterestLists \union BotInterests) |->
        _score_course(k[1], k[2], k[3])] @@ << >>

-----------------------------------------------------------------------------
(* get_elective_courses, recommend_courses                                 *)

\* Fault: `program in c.program`, the case kept
get_elective_courses_case_sensitive(cs, program) ==
    LET electives == SelectSeq(cs, LAMBDA c : c.course_type = elective) IN
    IF Truthy(program)
    THEN SelectSeq(electives, LAMBDA c : Contains(c.program, Value(program)))
    ELSE electives

get_elective_courses(cs, program) ==
    LET electives == SelectSeq(cs, LAMBDA c : c.course_type = elective) IN
    IF Truthy(program)
    THEN SelectSeq(electives,
             LAMBDA c : Contains(lower(c.program), lower(Value(program))))
    ELSE electives

\* Fault: seq[:k + 1]
SliceOneMore(seq, k) == SubSeq(seq, 1, Min(k + 1, Len(seq)))

\* Fault: seq[-k:], the tail of the sorted list
SliceTail(seq, k) == SubSeq(seq, Max(Len(seq) - k, 0) + 1, Len(seq))

\* seq[:k]
Slice(seq, k) ==
    IF k >= 0 THEN SubSeq(seq, 1, Min(k, Len(seq)))
    ELSE SubSeq(seq, 1, Max(Len(seq) + k, 0))

\* Fault: the list is left in the order it was built in
SortSkipped(recs) == recs

\* Fault: a sort that puts an element before the elements of equal score
\* that precede it
RECURSIVE SortByScoreTiesReversed(_)
SortByScoreTiesReversed(recs) ==
    IF recs = <<>> THEN <<>>
    ELSE LET rest == SortByScoreTiesReversed(SubSeq(recs, 1, Len(recs) - 1))
             x == recs[Len(recs)]
             k == Cardinality({j \in 1..Len(rest) :
                                   FracLess(x.score, rest[j].score)})
         IN  SubSeq(rest, 1, k) \o <<x>> \o SubSeq(rest, k + 1, Len(rest))

\* list.sort(key=lambda x: x.score, reverse=True): stable, so every element
\* goes behind the elements of no smaller score that precede it.
RECURSIVE SortByScore(_)
SortByScore(recs) ==
    IF recs = <<>> THEN <<>>
    ELSE LET rest == SortByScore(SubSeq(recs, 1, Len(recs) - 1))
             x == recs[Len(recs)]
             k == Cardinality({j \in 1..Len(rest) :
                                   FracLeq(x.score, rest[j].score)})
         IN  SubSeq(rest, 1, k) \o <<x>> \o SubSeq(rest, k + 1, Len(rest))

\* CourseRecommendation(course=course, score=score, reasoning=reasoning,
\*                      priority=0), (score, reasoning) being scored
CourseRecommendation(course, result) ==
    [course |-> course, score |-> result.score,
     reasoning |-> result.reasoning, priority |-> 0]

\* The list after the loop over electives
ScoreAll(electives, user_skills, interests) ==
    Tuple([i \in 1..Len(electives) |->
              CourseRecommendation(electives[i],
                  EvaluatedScores[<<electives[i], user_skills, interests>>])],
          Len(electives))

\* Fault: rec.priority = i, the 0-based index
SetPrioritiesZeroBased(sorted, max_recommendations) ==
    Tuple([i \in 1..Len(sorted) |->
              IF i <= Len(SubSeq(sorted, 1, Min(max_recommendations,
                                                  Len(sorted))))
              THEN [sorted[i] EXCEPT !.priority = i - 1]
              ELSE sorted[i]],
          Len(sorted))

\* for i, rec in enumerate(recommendations[:max_recommendations]):
\*     rec.priority = i + 1        (i from 0; the index here is from 1)
\* The entries of the list are the objects of the slice, so the list itself
\* after the loop is returned too.
SetPriorities(sorted, max_recommendations) ==
    Tuple([i \in 1..Len(sorted) |->
              IF i <= Len(Slice(sorted, max_recommendations))
              THEN [sorted[i] EXCEPT !.priority = i]
              ELSE sorted[i]],
          Len(sorted))

recommend_courses(cs, user_background, interests, program, max_recommendations) ==
    LET user_skills == EvaluatedSkills[user_background]
        electives == get_elective_courses(cs, program)
    IN  IF electives = <<>> THEN <<>>
        ELSE Slice(SetPriorities(
                       SortByScore(ScoreAll(electives, user_skills, interests)),
                       max_recommendations),
                   max_recommendations)

-----------------------------------------------------------------------------
(* get_study_plan, format_recommendations                                  *)

\* plan[semester] with a semester that is no key of the plan: KeyError
PlanRaises(recs, semesters) ==
    \E i \in 1..Len(recs) :
        /\ recs[i].course.semester <= semesters
        /\ recs[i].course.semester \notin 1..semesters

\* Fault: a course beyond the horizon goes to the last semester
get_study_plan_clamped(recs, semesters) ==
    [semester \in 1..semesters |->
        LET mine == SelectSeq(recs, LAMBDA rec :
                        Min(rec.course.semester, semesters) = semester)
        IN  Tuple([i \in 1..Len(mine) |-> mine[i].course], Len(mine))]

\* Fault: plan[semester].insert(0, rec.course)
get_study_plan_prepending(recs, semesters) ==
    [semester \in 1..semesters |->
        LET mine == SelectSeq(recs, LAMBDA rec :
                        /\ rec.course.semester <= semesters
                        /\ rec.course.semester = semester)
        IN  Tuple([i \in 1..Len(mine) |-> mine[Len(mine) + 1 - i].course],
                  Len(mine))]

\* The returned dict, keys 1..semesters in order, as a function on them.
get_study_plan(recs, semesters) ==
    [semester \in 1..semesters |->
        LET mine == SelectSeq(recs, LAMBDA rec :
                        /\ rec.course.semester <= semesters
                        /\ rec.course.semester = semester)
        IN  Tuple([i \in 1..Len(mine) |-> mine[i].course], Len(mine))]

\* str(n) for n >= 0
RECURSIVE Decimal(_)
Decimal(n) ==
    IF n < 10 THEN <<48 + n>> ELSE Decimal(n \div 10) \o <<48 + (n % 10)>>

\* f"{score:.0%}": 100 * score rounded to an integer, halves to even
Percent(score) ==
    LET x == 100 * score.num
        q == x \div score.den
        r == x % score.den
    IN  Decimal(IF 2 * r > score.den THEN q + 1
                ELSE IF 2 * r < score.den THEN q
                ELSE IF q % 2 = 0 THEN q ELSE q + 1) \o <<37>>

\* list[i] for -len <= i < len
PyIndex(list, i) == IF i >= 0 THEN list[i + 1] ELSE list[Len(list) + i + 1]

medals ==
    <<(<<129351>>), (<<129352>>), (<<129353>>),
      Lat("4") \o <<65039, 8419>>, Lat("5") \o <<65039, 8419>>>>
bullet == <<9642, 65039>>
no_recommendations ==
    Cyr("K sovaleni8, ne udalosx podobratx rekomendacii. ")
    \o Cyr("Poprobujte uto4nitx wa6i interesy.")
header_line == <<127919>> \o Cyr(" **Rekomendowannye kursy:**") \o <<10>>
program_label == Lat("   ") \o <<128205>> \o Cyr(" Programma: ")
semester_label == Lat("   ") \o <<128197>> \o Cyr(" Semestr: ")
reasoning_label == Lat("   ") \o <<128161>> \o Lat(" ")
score_label == Lat("   ") \o <<128202>> \o Cyr(" Ocenka sootwetstwiq: ")
plan_header_line ==
    <<10, 128218>> \o Cyr(" **Plan izu4eniq po semestram:**") \o <<10>>
plan_semester_label == Cyr("**Semestr ")
plan_course_label == Lat("  ") \o <<8226>> \o Lat(" ")

\* The six lines appended for one recommendation
RecommendationLines(rec) ==
    LET emoji == IF rec.priority <= 5 THEN PyIndex(medals, rec.priority - 1)
                 ELSE bullet
    IN  <<emoji \o Lat(" **") \o rec.course.name \o Lat("**"),
          program_label \o rec.course.program,
          semester_label \o Decimal(rec.course.semester),
          reasoning_label \o rec.reasoning,
          score_label \o Percent(rec.score),
          <<>>>>

\* Fault: no `if courses:`, a section for every key of the plan
RECURSIVE PlanLinesEveryBucket(_, _)
PlanLinesEveryBucket(study_plan, semester) ==
    IF semester \notin DOMAIN study_plan THEN <<>>
    ELSE <<plan_semester_label \o Decimal(semester) \o Lat(":**")>>
         \o Tuple([i \in 1..Len(study_plan[semester]) |->
                plan_course_label \o study_plan[semester][i].name],
                  Len(study_plan[semester]))
         \o << <<>> >>
         \o PlanLinesEveryBucket(study_plan, semester + 1)

\* The lines appended for the plan: a section per non-empty bucket, in the
\* dict's key order.
RECURSIVE PlanLines(_, _)
PlanLines(study_plan, semester) ==
    IF semester \notin DOMAIN study_plan THEN <<>>
    ELSE (IF study_plan[semester] # <<>>
          THEN <<plan_semester_label \o Decimal(semester) \o Lat(":**")>>
               \o Tuple([i \in 1..Len(study_plan[semester]) |->
                      plan_course_label \o study_plan[semester][i].name],
                        Len(study_plan[semester]))
               \o << <<>> >>
          ELSE <<>>)
         \o PlanLines(study_plan, semester + 1)

RECURSIVE AllRecommendationLines(_)
AllRecommendationLines(recs) ==
    IF recs = <<>> THEN <<>>
    ELSE RecommendationLines(Head(recs)) \o AllRecommendationLines(Tail(recs))

\* The default of get_study_plan's semesters parameter
DefaultSemesters == 4

\* lines, before "\n".join(lines)
ReportLines(recs, include_plan) ==
    <<header_line>>
    \o AllRecommendationLines(recs)
    \o (IF include_plan
        THEN <<plan_header_line>>
             \o PlanLines(get_study_plan(recs, DefaultSemesters), 1)
        ELSE <<>>)

format_recommendations(recs, include_plan) ==
    IF recs = <<>> THEN no_recommendations
    ELSE Join(<<10>>, ReportLines(recs, include_plan))

-----------------------------------------------------------------------------
(* The engine and its callers                                              *)
(*                                                                         *)
(* recommendations, plan and report are one caller's variables: the list   *)
(* recommend_courses returned, with the arguments it was called with, and  *)
(* what get_study_plan and format_recommendations did with that list.      *)
(* calls holds, for each of the callers that share the engine, the frame   *)
(* of its recommend_courses call: the arguments, the locals and the place  *)
(* in the body.                                                            *)

Callers == {1, 2}

IdleFrame ==
    [pc |-> "idle", args |-> None, user_skills |-> None, electives |-> <<>>,
     recommendations |-> <<>>, result |-> <<>>]

\* No user has a profile or a cached conversation, no update was handled
NoDialog ==
    /\ user_profiles = << >>
    /\ update = None
    /\ conversation_cache = << >>
    /\ answer = None

NoCall ==
    /\ NoDialog
    /\ request = None
    /\ recommendations = <<>>
    /\ plan = None
    /\ report = None
    /\ scored = None
    /\ profile = None
    /\ calls = [t \in Callers |-> IdleFrame]

Init ==
    /\ files \in FileStates
    /\ engine = "new"
    /\ courses = <<>>
    /\ NoCall

\* CourseRecommender(): self.courses = self._load_courses()
Construct ==
    /\ engine = "new"
    /\ \/ /\ LoadRaises(files)
          /\ engine' = "raised"
          /\ courses' = courses
       \/ /\ ~LoadRaises(files)
          /\ engine' = "ready"
          /\ courses' = _load_courses(files)
    /\ UNCHANGED <<files, request, recommendations, plan, report, scored,
                   calls,
                   profile, dialog>>

\* Fault: the filtered list is kept as self.courses
RecommendCoursesKeepingFilter(user_background, interests, program, max_recommendations) ==
    /\ engine = "ready"
    /\ request' = Some([user_background |-> user_background,
                        interests |-> interests,
                        program |-> program,
                        max_recommendations |-> max_recommendations])
    /\ recommendations' = recommend_courses(courses, user_background,
                              interests, program, max_recommendations)
    /\ courses' = get_elective_courses(courses, program)
    /\ plan' = None
    /\ report' = None
    /\ UNCHANGED <<files, engine, scored, calls,
                   profile, dialog>>

RecommendCourses(user_background, interests, program, max_recommendations) ==
    /\ engine = "ready"
    /\ request' = Some([user_background |-> user_background,
                        interests |-> interests,
                        program |-> program,
                        max_recommendations |-> max_recommendations])
    /\ recommendations' = recommend_courses(courses, user_background,
                              interests, program, max_recommendations)
    /\ plan' = None
    /\ report' = None
    /\ UNCHANGED <<files, engine, courses, scored, calls,
                   profile, dialog>>

\* plan: what the call did, a KeyError raised or the mapping returned
GetStudyPlan(semesters) ==
    /\ engine = "ready"
    /\ request # None
    /\ plan' = Some(IF PlanRaises(recommendations, semesters)
                    THEN [semesters |-> semesters, raised |-> TRUE,
                          result |-> <<>>]
                    ELSE [semesters |-> semesters, raised |-> FALSE,
                          result |-> get_study_plan(recommendations,
                                                    semesters)])
    /\ UNCHANGED <<files, engine, courses, request, recommendations, report,
                   scored, calls,
                   profile, dialog>>

\* report: what the call did; with include_plan and a non-empty list it
\* calls get_study_plan(recommendations) and raises what that raises
FormatRecommendations(include_plan) ==
    /\ engine = "ready"
    /\ request # None
    /\ report' = Some(IF /\ recommendations # <<>>
                         /\ include_plan
                         /\ PlanRaises(recommendations, DefaultSemesters)
                      THEN [include_plan |-> include_plan, raised |-> TRUE,
                            text |-> <<>>]
                      ELSE [include_plan |-> include_plan, raised |-> FALSE,
                            text |-> format_recommendations(recommendations,
                                                            include_plan)])
    /\ UNCHANGED <<files, engine, courses, request, recommendations, plan,
                   scored, calls,
                   profile, dialog>>

Next ==
    \/ Construct
    \/ \E b \in Backgrounds, i \in InterestLists, p \in Programs,
          m \in Limits : RecommendCourses(b, i, p, m)
    \/ \E s \in Horizons : GetStudyPlan(s)
    \/ \E ip \in BOOLEAN : FormatRecommendations(ip)

Spec == Init /\ [][Next]_vars

-----------------------------------------------------------------------------
(* _score_course as a function of its arguments: the arguments are drawn   *)
(* at the start and the call is made on them.                              *)

InitScore ==
    /\ NoDialog
    /\ files \in {<<FileNotFoundError, FileNotFoundError>>,
                  <<ai_program_json, ai_product_program_json>>}
    /\ engine = "ready"
    /\ courses = _load_courses(files)
    /\ request = None
    /\ recommendations = <<>>
    /\ plan = None
    /\ report = None
    /\ profile = None
    /\ calls = [t \in Callers |-> IdleFrame]
    /\ \E n \in 1..Len(courses), u \in ScoredProfiles,
          i \in ScoredInterestLists :
           scored = Some([course |-> courses[n], user_skills |-> u,
                          interests |-> i, locals |-> None,
                          result |-> None])

ScoreCourse ==
    /\ engine = "ready"
    /\ scored # None
    /\ scored' = Some([Value(scored) EXCEPT
                      !.locals =
                          Some(_score_course_locals(Value(scored).course,
                                                    Value(scored).user_skills,
                                                    Value(scored).interests)),
                      !.result =
                          Some(_score_course(Value(scored).course,
                                             Value(scored).user_skills,
                                             Value(scored).interests))])
    /\ UNCHANGED <<files, engine, courses, request, recommendations, plan,
                   report, calls,
                   profile, dialog>>

SpecScore == InitScore /\ [][ScoreCourse]_vars

-----------------------------------------------------------------------------
(* UserSkills.from_background as a function of its argument: the          *)
(* background is drawn at the start and the call is made on it.            *)

InitProfile ==
    /\ NoDialog
    /\ files = <<FileNotFoundError, FileNotFoundError>>
    /\ engine = "new"
    /\ courses = <<>>
    /\ request = None
    /\ recommendations = <<>>
    /\ plan = None
    /\ report = None
    /\ scored = None
    /\ calls = [t \in Callers |-> IdleFrame]
    /\ \E b \in ProfileBackgrounds :
           profile = Some([background |-> b, result |-> None])

FromBackground ==
    /\ profile # None
    /\ profile' = Some([Value(profile) EXCEPT !.result =
                       Some(from_background(Value(profile).background))])
    /\ UNCHANGED <<files, engine, courses, request, recommendations, plan,
                   report, scored, calls, dialog>>

SpecProfile == InitProfile /\ [][FromBackground]_vars

-----------------------------------------------------------------------------
(* recommend_courses statement by statement, run by callers that share     *)
(* the engine: a step of one caller may come between any two steps of the  *)
(* other.  Every local lives in the caller's frame; self.courses is the    *)
(* one thing the body reads that is not a local.                           *)

\* The arguments the concurrent callers use
ConcurrentPrograms == {None, Some(Lat("ai product"))}

InitConcurrent ==
    /\ files \in {<<FileNotFoundError, FileNotFoundError>>,
                  <<ai_program_json, ai_product_program_json>>}
    /\ engine = "ready"
    /\ courses = _load_courses(files)
    /\ NoCall

\* recommend_courses(user_background, interests, program, max_recommendations)
\* is entered
Call(t, user_background, interests, program, max_recommendations) ==
    /\ engine = "ready"
    /\ calls[t].pc \in {"idle", "done"}
    /\ calls' = [calls EXCEPT ![t] =
           [IdleFrame EXCEPT
               !.pc = "analyse",
               !.args = Some([user_background |-> user_background,
                              interests |-> interests,
                              program |-> program,
                              max_recommendations |-> max_recommendations])]]
    /\ UNCHANGED <<files, engine, courses, request, recommendations, plan,
                   report, scored,
                   profile, dialog>>

\* user_skills = UserSkills.from_background(user_background)
Analyse(t) ==
    /\ calls[t].pc = "analyse"
    /\ calls' = [calls EXCEPT ![t] =
           [@ EXCEPT !.pc = "filter",
                     !.user_skills =
                         Some(EvaluatedSkills[
                                  Value(calls[t].args).user_background])]]
    /\ UNCHANGED <<files, engine, courses, request, recommendations, plan,
                   report, scored,
                   profile, dialog>>

\* electives = self.get_elective_courses(program)
\* if not electives: return []
Filter(t) ==
    /\ calls[t].pc = "filter"
    /\ LET electives ==
               get_elective_courses(courses, Value(calls[t].args).program)
       IN  calls' = [calls EXCEPT ![t] =
               IF electives = <<>>
               THEN [@ EXCEPT !.pc = "done", !.result = <<>>]
               ELSE [@ EXCEPT !.pc = "score", !.electives = electives]]
    /\ UNCHANGED <<files, engine, courses, request, recommendations, plan,
                   report, scored,
                   profile, dialog>>

\* Fault: the list under construction is one list of the engine, so what a
\* caller appends lands in the list of every call that is in the loop
ScoreNextShared(t) ==
    /\ calls[t].pc = "score"
    /\ LET course == calls[t].electives[Len(calls[t].recommendations) + 1]
           rec == CourseRecommendation(course,
                      EvaluatedScores[<<course, Value(calls[t].user_skills),
                                        Value(calls[t].args).interests>>])
       IN  calls' = [u \in Callers |->
               IF calls[u].pc = "score"
               THEN [calls[u] EXCEPT
                        !.recommendations = Append(@, rec),
                        !.pc = IF Len(calls[u].recommendations) + 1
                                    >= Len(calls[u].electives)
                               THEN "sort" ELSE "score"]
               ELSE calls[u]]
    /\ UNCHANGED <<files, engine, courses, request, recommendations, plan,
                   report, scored,
                   profile, dialog>>

\* One turn of `for course in electives`: score the next course and append
\* its CourseRecommendation to the local list.
ScoreNext(t) ==
    /\ calls[t].pc = "score"
    /\ calls' = [calls EXCEPT ![t] =
           [@ EXCEPT
               !.recommendations = Append(@,
                   CourseRecommendation(calls[t].electives[Len(@) + 1],
                       EvaluatedScores[<<calls[t].electives[Len(@) + 1],
                                         Value(calls[t].user_skills),
                                         Value(calls[t].args).interests>>])),
               !.pc = IF Len(calls[t].recommendations) + 1
                           = Len(calls[t].electives)
                      THEN "sort" ELSE "score"]]
    /\ UNCHANGED <<files, engine, courses, request, recommendations, plan,
                   report, scored,
                   profile, dialog>>

\* recommendations.sort(key=lambda x: x.score, reverse=True)
Sort(t) ==
    /\ calls[t].pc = "sort"
    /\ calls' = [calls EXCEPT ![t] =
           [@ EXCEPT !.pc = "prioritise",
                     !.recommendations = SortByScore(@)]]
    /\ UNCHANGED <<files, engine, courses, request, recommendations, plan,
                   report, scored,
                   profile, dialog>>

\* for i, rec in enumerate(recommendations[:max_recommendations]):
\*     rec.priority = i + 1
Prioritise(t) ==
    /\ calls[t].pc = "prioritise"
    /\ calls' = [calls EXCEPT ![t] =
           [@ EXCEPT !.pc = "return",
                     !.recommendations =
                         SetPriorities(@, Value(calls[t].args).max_recommendations)]]
    /\ UNCHANGED <<files, engine, courses, request, recommendations, plan,
                   report, scored,
                   profile, dialog>>

\* return recommendations[:max_recommendations]
Return(t) ==
    /\ calls[t].pc = "return"
    /\ calls' = [calls EXCEPT ![t] =
           [@ EXCEPT !.pc = "done",
                     !.result = Slice(calls[t].recommendations,
                                      Value(calls[t].args).max_recommendations)]]
    /\ UNCHANGED <<files, engine, courses, request, recommendations, plan,
                   report, scored,
                   profile, dialog>>

NextConcurrent ==
    \E t \in Callers :
        \/ \E b \in Backgrounds, i \in InterestLists,
              p \in ConcurrentPrograms : Call(t, b, i, p, MaxLimit - 1)
        \/ Analyse(t)
        \/ Filter(t)
        \/ ScoreNext(t)
        \/ Sort(t)
        \/ Prioritise(t)
        \/ Return(t)

SpecConcurrent == InitConcurrent /\ [][NextConcurrent]_vars

-----------------------------------------------------------------------------
(* bot.states, bot.handlers: the profiles of the users and the handlers of *)
(* the updates. The module builds its RAGRetriever, and with it the engine, *)
(* when it is imported.                                                     *)

DialogState ==
    {"START", "COLLECTING_BACKGROUND", "COLLECTING_INTERESTS",
     "COLLECTING_EXPERIENCE", "READY", "AWAITING_QUESTION"}

\* UserProfile(user_id=user_id)
UserProfile(user_id) ==
    [user_id |-> user_id, background |-> None, interests |-> <<>>,
     experience |-> None, preferred_program |-> None, state |-> "START",
     conversation_history |-> <<>>]

\* Fault: the profile is taken for complete whatever it holds
is_profile_complete_always(p) == TRUE

\* bool(self.background)
is_profile_complete(p) == Truthy(p.background)

\* The store after get_user_profile(user_id), which adds a new profile for
\* a user who has none
get_user_profile(user_id) ==
    IF user_id \in DOMAIN user_profiles THEN user_profiles
    ELSE user_profiles @@ (user_id :> UserProfile(user_id))

\* Fault: the label compared without its emoji
ButtonPressedEmojiLeftOut(message_text, label) ==
    message_text = SubSeq(label, 3, Len(label))

\* message_text == label
ButtonPressed(message_text, label) == message_text = label

RagLimit == 5         \* max_recommendations of get_course_recommendations
MaxHistory == 1       \* exchanges a profile's conversation_history can take

\* What rag.get_course_recommendations does with the list recommend_courses
\* returned: an empty list goes to the fallback, which returns a text;
\* format_recommendations(recommendations, include_plan=True) raises
\* KeyError or returns the text that is enriched and returned.
RecommendationsOutcome(recs) ==
    IF recs = <<>> THEN "fallback"
    ELSE IF PlanRaises(recs, DefaultSemesters) THEN "raised"
    ELSE "formatted"

\* rag.get_course_recommendations(user_background, interests); on None the
\* engine's background.lower() raises AttributeError
get_course_recommendations(user_background, interests) ==
    IF user_background = None THEN "raised"
    ELSE RecommendationsOutcome(
             recommend_courses(courses, Value(user_background), interests,
                               None, RagLimit))

\* The update handled and what the handler did: the call of the
\* recommendation engine it made, if any, and the reply it sent last
Handled(handler, user_id, text, recommended, reply) ==
    Some([handler |-> handler, user_id |-> user_id, text |-> text,
          recommended |-> recommended, reply |-> reply])

\* The engine call of recommend_command for a profile
EngineCall(p) ==
    [user_background |-> p.background,
     interests |-> IF p.interests # <<>> THEN p.interests
                   ELSE default_interests]

InitBot ==
    /\ files \in {<<FileNotFoundError, FileNotFoundError>>,
                  <<ai_program_json, ai_product_program_json>>}
    /\ engine = "ready"
    /\ courses = _load_courses(files)
    /\ request = None
    /\ recommendations = <<>>
    /\ plan = None
    /\ report = None
    /\ scored = None
    /\ profile = None
    /\ calls = [t \in Callers |-> IdleFrame]
    /\ NoDialog

\* start_command
StartCommand(user_id) ==
    /\ user_profiles' = [get_user_profile(user_id) EXCEPT
                            ![user_id].state = "START"]
    /\ update' = Handled("start_command", user_id, None, None, "onboarding")
    /\ UNCHANGED <<files, engine, courses, request, recommendations, plan,
                   report, scored, profile, calls, conversation_cache,
                   answer>>

\* help_command
HelpCommand(user_id) ==
    /\ update' = Handled("help_command", user_id, None, None, "help")
    /\ UNCHANGED <<files, engine, courses, request, recommendations, plan,
                   report, scored, profile, calls, conversation_cache,
                   answer, user_profiles>>

\* compare_command, called for /compare or by handle_message with the
\* store `profiles`: rag.compare_programs() returns a text
compare_command(handler, user_id, text, profiles) ==
    /\ user_profiles' = profiles
    /\ update' = Handled(handler, user_id, text, None, "comparison")

CompareCommand(user_id) ==
    /\ compare_command("compare_command", user_id, None, user_profiles)
    /\ UNCHANGED <<files, engine, courses, request, recommendations, plan,
                   report, scored, profile, calls, conversation_cache,
                   answer>>

\* recommend_command, called for /recommend or by handle_message
recommend_command(handler, user_id, text) ==
    IF ~is_profile_complete(get_user_profile(user_id)[user_id])
    THEN /\ user_profiles' = [get_user_profile(user_id) EXCEPT
                                 ![user_id].state = "COLLECTING_BACKGROUND"]
         /\ update' = Handled(handler, user_id, text, None, "ask_background")
    ELSE /\ user_profiles' = get_user_profile(user_id)
         /\ update' = Handled(handler, user_id, text,
                Some(EngineCall(get_user_profile(user_id)[user_id])),
                IF get_course_recommendations(
                       EngineCall(get_user_profile(user_id)[user_id])
                           .user_background,
                       EngineCall(get_user_profile(user_id)[user_id])
                           .interests) = "raised"
                THEN "recommend_error"
                ELSE "recommendations")

RecommendCommand(user_id) ==
    /\ recommend_command("recommend_command", user_id, None)
    /\ UNCHANGED <<files, engine, courses, request, recommendations, plan,
                   report, scored, profile, calls, conversation_cache,
                   answer>>

\* profile_command
ProfileCommand(user_id) ==
    /\ user_profiles' = get_user_profile(user_id)
    /\ update' = Handled("profile_command", user_id, None, None, "profile")
    /\ UNCHANGED <<files, engine, courses, request, recommendations, plan,
                   report, scored, profile, calls, conversation_cache,
                   answer>>

\* Fault: the fields of the profile are cleared and its state is kept
ResetCommandKeepingState(user_id) ==
    /\ user_profiles' =
           [get_user_profile(user_id) EXCEPT
               ![user_id] = [UserProfile(user_id) EXCEPT
                   !.state = get_user_profile(user_id)[user_id].state]]
    /\ update' = Handled("reset_command", user_id, None, None, "reset")
    /\ UNCHANGED <<files, engine, courses, request, recommendations, plan,
                   report, scored, profile, calls, conversation_cache,
                   answer>>

\* reset_command: user_profiles[user_id] = UserProfile(user_id=user_id)
ResetCommand(user_id) ==
    /\ user_profiles' =
           [get_user_profile(user_id) EXCEPT
               ![user_id] = UserProfile(user_id)]
    /\ update' = Handled("reset_command", user_id, None, None, "reset")
    /\ UNCHANGED <<files, engine, courses, request, recommendations, plan,
                   report, scored, profile, calls, conversation_cache,
                   answer>>

\* The last branch of handle_message: rag.get_answer(query, user_context,
\* check_relevance=True), with no user_id, returns a text, the reply is
\* sent and the exchange is appended to the history; an exception on the
\* way leaves the history as it was. (Of a message of the history the
\* model keeps the role; the update handled last holds the text.)
AnswerQuestion(user_id, message_text) ==
    /\ Len(get_user_profile(user_id)[user_id].conversation_history)
           < 2 * MaxHistory
    /\ \E sent \in BOOLEAN :
           IF sent
           THEN /\ user_profiles' =
                       [get_user_profile(user_id) EXCEPT
                           ![user_id].conversation_history =
                               @ \o <<[role |-> "user"],
                                      [role |-> "assistant"]>>]
                /\ update' = Handled("handle_message", user_id,
                                     Some(message_text), None, "answer")
           ELSE /\ user_profiles' = get_user_profile(user_id)
                /\ update' = Handled("handle_message", user_id,
                                     Some(message_text), None,
                                     "answer_error")

\* handle_message
HandleMessage(user_id, message_text) ==
    /\ IF ButtonPressed(message_text, compare_button)
       THEN compare_command("handle_message", user_id, Some(message_text),
                            get_user_profile(user_id))
       ELSE IF ButtonPressed(message_text, recommend_button)
       THEN recommend_command("handle_message", user_id, Some(message_text))
       ELSE IF ButtonPressed(message_text, question_button)
       THEN /\ user_profiles' = get_user_profile(user_id)
            /\ update' = Handled("handle_message", user_id,
                                 Some(message_text), None, "ask_question")
       ELSE IF get_user_profile(user_id)[user_id].state
                   = "COLLECTING_BACKGROUND"
       THEN /\ user_profiles' =
                   [get_user_profile(user_id) EXCEPT
                       ![user_id].background = Some(message_text),
                       ![user_id].state = "COLLECTING_INTERESTS"]
            /\ update' = Handled("handle_message", user_id,
                                 Some(message_text), None, "ask_interests")
       ELSE IF get_user_profile(user_id)[user_id].state
                   = "COLLECTING_INTERESTS"
       THEN /\ user_profiles' =
                   [get_user_profile(user_id) EXCEPT
                       ![user_id].interests =
                           IF message_text # skip_button
                           THEN ParseInterests(message_text)
                           ELSE @,
                       ![user_id].state = "READY"]
            /\ update' = Handled("handle_message", user_id,
                                 Some(message_text), None, "ready")
       ELSE AnswerQuestion(user_id, message_text)
    /\ UNCHANGED <<files, engine, courses, request, recommendations, plan,
                   report, scored, profile, calls, conversation_cache,
                   answer>>

NextBot ==
    \E user_id \in UserIds :
        \/ StartCommand(user_id)
        \/ HelpCommand(user_id)
        \/ CompareCommand(user_id)
        \/ RecommendCommand(user_id)
        \/ ProfileCommand(user_id)
        \/ ResetCommand(user_id)
        \/ \E message_text \in MessageTexts :
               HandleMessage(user_id, message_text)

SpecBot == InitBot /\ [][NextBot]_vars

-----------------------------------------------------------------------------
(* rag.retriever: the conversation cache of RAGRetriever under direct      *)
(* get_answer and clear_user_history calls                                  *)

CacheLimit == 20      \* the messages a user's cached conversation can hold

\* The user_id argument of get_answer: None, 0 or the id of a user; that
\* of clear_user_history is an int
CacheUserIds == {None, Some(0), Some(1), Some(2)}

\* The query of a call and the text the model generates for it
a_query == Cyr("Kakie kursy wybratx") \o <<63>>
generated_answer == Cyr("Wyberite ") \o Lat("NLP")
Queries == {a_query}

\* `if user_id:` is false for None and for 0
UserIdGiven(user_id) == user_id # None /\ Value(user_id) # 0

\* Fault: messages[-21:]
LastMessagesOneMore(messages) ==
    SubSeq(messages, Max(Len(messages) - (CacheLimit + 1), 0) + 1,
           Len(messages))

\* messages[-20:]
LastMessages(messages) ==
    SubSeq(messages, Max(Len(messages) - CacheLimit, 0) + 1, Len(messages))

\* The list of the user in the cache, [] when the user has none
Cached(user_id) ==
    IF user_id \in DOMAIN conversation_cache
    THEN conversation_cache[user_id]
    ELSE <<>>

\* The list after the two appends
WithExchange(messages, query, text) ==
    messages \o <<[role |-> "user", content |-> query],
                  [role |-> "assistant", content |-> text]>>

\* What a get_answer call can come to: the relevance check, made only when
\* asked for, rejects the query; the generation raises and the failure text
\* is returned; or the answer is generated.
Outcomes(check_relevance) ==
    IF check_relevance THEN {"rejected", "failed", "answered"}
    ELSE {"failed", "answered"}

InitCache ==
    /\ files = <<FileNotFoundError, FileNotFoundError>>
    /\ engine = "ready"
    /\ courses = _load_courses(files)
    /\ request = None
    /\ recommendations = <<>>
    /\ plan = None
    /\ report = None
    /\ scored = None
    /\ profile = None
    /\ calls = [t \in Callers |-> IdleFrame]
    /\ NoDialog

\* get_answer(query, user_context, user_id, check_relevance)
GetAnswer(query, user_id, check_relevance) ==
    /\ \E outcome \in Outcomes(check_relevance) :
           IF outcome = "answered" /\ UserIdGiven(user_id)
           THEN /\ conversation_cache' =
                       [n \in DOMAIN conversation_cache
                               \union {Value(user_id)} |->
                           IF n # Value(user_id) THEN conversation_cache[n]
                           ELSE IF Len(WithExchange(Cached(n), query,
                                           generated_answer)) > CacheLimit
                           THEN LastMessages(WithExchange(Cached(n), query,
                                                 generated_answer))
                           ELSE WithExchange(Cached(n), query,
                                             generated_answer)] @@ << >>
                /\ answer' = Some([op |-> "get_answer", user_id |-> user_id,
                                   query |-> query, outcome |-> outcome,
                                   trimmed |->
                                       Len(WithExchange(
                                               Cached(Value(user_id)), query,
                                               generated_answer))
                                           > CacheLimit])
           ELSE /\ conversation_cache' = conversation_cache
                /\ answer' = Some([op |-> "get_answer", user_id |-> user_id,
                                   query |-> query, outcome |-> outcome,
                                   trimmed |-> FALSE])
    /\ UNCHANGED <<files, engine, courses, request, recommendations, plan,
                   report, scored, profile, calls, user_profiles, update>>

\* clear_user_history(user_id)
ClearUserHistory(user_id) ==
    /\ conversation_cache' =
           [n \in DOMAIN conversation_cache \ {user_id} |->
               conversation_cache[n]] @@ << >>
    /\ answer' = Some([op |-> "clear_user_history",
                       user_id |-> Some(user_id), query |-> <<>>,
                       outcome |-> "cleared", trimmed |-> FALSE])
    /\ UNCHANGED <<files, engine, courses, request, recommendations, plan,
                   report, scored, profile, calls, user_profiles, update>>

NextCache ==
    \/ \E query \in Queries, user_id \in CacheUserIds,
          check_relevance \in BOOLEAN :
           GetAnswer(query, user_id, check_relevance)
    \/ \E user_id \in CacheUserIds \ {None} :
           ClearUserHistory(Value(user_id))

SpecCache == InitCache /\ [][NextCache]_vars

-----------------------------------------------------------------------------
(* Properties                                                              *)

\* The course passes the elective/program filter of a request
Passes(course, program) ==
    /\ course.course_type = elective
    /\ \/ program = None
       \/ Contains(lower(course.program), lower(Value(program)))

\* The positions of the catalog that pass the filter
Filtered(program) == {k \in 1..Len(courses) : Passes(courses[k], program)}

\* 0 <= score <= 1
InUnitInterval(score) ==
    /\ score.den > 0
    /\ 0 <= score.num
    /\ score.num <= score.den

\* C1: the score returned by _score_course lies in [0, 1] for every course,
\* skill profile and interest sequence, and so does the score of every
\* recommendation returned by recommend_courses.
C1_ScoreInUnitInterval ==
    /\ \A call \in scored :
           call.result # None => InUnitInterval(Value(call.result).score)
    /\ \A i \in 1..Len(recommendations) :
           InUnitInterval(recommendations[i].score)

\* A scored course that two interests match and whose score is exactly 1
C1_Witness ==
    \E call \in scored :
        /\ call.result # None
        /\ Len(InterestMatches(call.course, call.interests)) >= 2
        /\ Value(call.result).score = Frac(1, 1)

\* C2: for a limit >= 1, recommend_courses returns min(limit, n)
\* recommendations, n being the number of catalog courses that pass the
\* elective/program filter; every entry is a filtered course and no filtered
\* course appears twice.
C2_LengthIsMinLimitFiltered ==
    request # None =>
        LET r == Value(request) IN
        /\ Len(recommendations)
               = Min(r.max_recommendations, Cardinality(Filtered(r.program)))
        /\ \A i \in 1..Len(recommendations) :
               \E k \in Filtered(r.program) :
                   recommendations[i].course = courses[k]
        /\ \A k \in Filtered(r.program) :
               Cardinality({i \in 1..Len(recommendations) :
                               recommendations[i].course = courses[k]}) <= 1

\* A call whose limit cuts the filtered courses short
C2_Witness ==
    /\ request # None
    /\ Value(request).max_recommendations >= 2
    /\ Cardinality(Filtered(Value(request).program))
           > Value(request).max_recommendations
    /\ Len(recommendations) = Value(request).max_recommendations

\* C3: the list returned by recommend_courses is in non-increasing order of
\* score.
C3_ScoreDescending ==
    \A i \in 1..(Len(recommendations) - 1) :
        FracLeq(recommendations[i + 1].score, recommendations[i].score)

\* A returned list with a strict descent in which a course stands before a
\* course that precedes it in the catalog
C3_Witness ==
    /\ Len(recommendations) >= 3
    /\ \E i \in 1..(Len(recommendations) - 1) :
           /\ FracLess(recommendations[i + 1].score, recommendations[i].score)
           /\ \E k, l \in 1..Len(courses) :
                  /\ k > l
                  /\ courses[k] = recommendations[i].course
                  /\ courses[l] = recommendations[i + 1].course

\* C4: the recommendation at position i (from 1) of the returned list has
\* priority i, so the priorities of a list of length k are exactly 1..k and
\* none is the placeholder 0.
C4_PrioritiesDense ==
    /\ \A i \in 1..Len(recommendations) : recommendations[i].priority = i
    /\ {recommendations[i].priority : i \in 1..Len(recommendations)}
           = 1..Len(recommendations)

\* A truncated list of several recommendations
C4_Witness ==
    /\ request # None
    /\ Len(recommendations) >= 2
    /\ Cardinality(Filtered(Value(request).program)) > Len(recommendations)
    /\ recommendations[Len(recommendations)].priority = Len(recommendations)

\* C5: recommend_courses returns only elective courses whose program name
\* contains the program filter as a case-insensitive substring (every
\* elective course when there is no filter); it leaves a passing course out
\* only when the limit is reached; it returns the empty list when no course
\* passes.
C5_OnlyFilteredElectives ==
    request # None =>
        LET r == Value(request) IN
        /\ \A i \in 1..Len(recommendations) :
               /\ recommendations[i].course.course_type = elective
               /\ r.program # None =>
                      Contains(lower(recommendations[i].course.program),
                               lower(Value(r.program)))
               /\ \E k \in 1..Len(courses) :
                      courses[k] = recommendations[i].course
        /\ \A k \in Filtered(r.program) :
               \/ \E i \in 1..Len(recommendations) :
                      recommendations[i].course = courses[k]
               \/ Len(recommendations) = r.max_recommendations
        /\ Filtered(r.program) = {} => recommendations = <<>>

\* A filter written in another case than the program names, over a catalog
\* that has electives of the program and electives and required courses of
\* another
C5_Witness ==
    /\ request # None
    /\ Value(request).program = Some(Lat("ai product"))
    /\ recommendations # <<>>
    /\ \E k \in 1..Len(courses) :
           /\ courses[k].course_type = elective
           /\ courses[k].program = Lat("AI")
    /\ \E k \in 1..Len(courses) :
           /\ courses[k].course_type # elective
           /\ courses[k].program = Lat("AI Product")

\* The places <<t, j>> of the courses in the buckets of a plan
Places(study_plan) ==
    UNION {{<<t, j>> : j \in 1..Len(study_plan[t])} : t \in DOMAIN study_plan}

\* C6: for every recommendation list and horizon H >= 1, get_study_plan
\* returns a mapping whose keys are exactly 1..H, and the courses in its
\* buckets are exactly the recommendations whose semester is <= H, each
\* once.
C6_PlanComplete ==
    \A p \in plan :
        /\ ~p.raised
        /\ DOMAIN p.result = 1..p.semesters
        /\ \A i \in 1..Len(recommendations) :
               recommendations[i].course.semester <= p.semesters =>
                   Cardinality({tj \in Places(p.result) :
                       p.result[tj[1]][tj[2]] = recommendations[i].course}) = 1
        /\ \A tj \in Places(p.result) :
               \E i \in 1..Len(recommendations) :
                   /\ recommendations[i].course = p.result[tj[1]][tj[2]]
                   /\ recommendations[i].course.semester <= p.semesters

\* C7: in the mapping get_study_plan returns, bucket t holds only courses
\* whose semester is t, and a recommended course whose semester exceeds the
\* horizon is in no bucket.
C7_BucketsByOwnTerm ==
    \A p \in plan :
        ~p.raised =>
            /\ \A tj \in Places(p.result) :
                   p.result[tj[1]][tj[2]].semester = tj[1]
            /\ \A i \in 1..Len(recommendations) :
                   recommendations[i].course.semester > p.semesters =>
                       \A tj \in Places(p.result) :
                           p.result[tj[1]][tj[2]] # recommendations[i].course

\* A plan with a course in a bucket and a recommendation beyond the horizon
C7_Witness ==
    \E p \in plan :
        /\ ~p.raised
        /\ Places(p.result) # {}
        /\ \E i \in 1..Len(recommendations) :
               recommendations[i].course.semester > p.semesters

\* The source gives no record: it is missing, is no JSON, or is an object
\* with no courses
NoRecords(file) ==
    IF file.status # "ok" THEN TRUE
    ELSE IF file.json # "object" THEN FALSE
    ELSE Get(file.data, "courses", <<>>) = <<>>

\* C8: when neither source gives a record, the engine holds the seed
\* catalog, which is not empty, has courses of at least two programs and
\* has elective courses.
C8_SeedFallback ==
    (engine # "new" /\ NoRecords(files[1]) /\ NoRecords(files[2])) =>
        /\ engine = "ready"
        /\ courses = _get_default_courses
        /\ courses # <<>>
        /\ Cardinality({courses[k].program : k \in 1..Len(courses)}) >= 2
        /\ \E k \in 1..Len(courses) : courses[k].course_type = elective

\* An engine built over an empty object and an object with no courses, and
\* a recommendation drawn from it
C8_Witness ==
    /\ files = <<empty_object_json, no_courses_json>>
    /\ engine = "ready"
    /\ recommendations # <<>>

\* C9: two recommend_courses calls with the same arguments over the same
\* catalog return the same list, whatever steps of other calls came in
\* between; and two scorings of the same course for the same profile and
\* interests give the same score and reasoning.
C9_SameArgumentsSameResult ==
    \A t, u \in Callers :
        /\ (/\ calls[t].pc = "done"
            /\ calls[u].pc = "done"
            /\ calls[t].args = calls[u].args)
               => calls[t].result = calls[u].result
        /\ (/\ calls[t].user_skills = calls[u].user_skills
            /\ calls[t].args # None
            /\ calls[u].args # None
            /\ Value(calls[t].args).interests = Value(calls[u].args).interests)
               => \A i \in 1..Len(calls[t].recommendations),
                     j \in 1..Len(calls[u].recommendations) :
                      calls[t].recommendations[i].course
                          = calls[u].recommendations[j].course
                      => /\ calls[t].recommendations[i].score
                              = calls[u].recommendations[j].score
                         /\ calls[t].recommendations[i].reasoning
                              = calls[u].recommendations[j].reasoning

\* Both callers have returned from calls with the same arguments
C9_Witness ==
    /\ calls[1].pc = "done"
    /\ calls[2].pc = "done"
    /\ calls[1].args # None
    /\ calls[1].args = calls[2].args
    /\ Len(calls[1].result) >= 2
    /\ calls[1].result = calls[2].result

\* C10: no recommend_courses, get_study_plan or format_recommendations call
\* changes the catalog, and get_study_plan leaves the list it is given as
\* it was.
C10_CatalogAndListUnchanged ==
    [][/\ engine = "ready" => courses' = courses
       /\ (plan' # plan /\ plan' # None)
              => recommendations' = recommendations]_vars

\* The catalog as loaded after the three calls were made
C10_Witness ==
    /\ engine = "ready"
    /\ courses = _load_courses(files)
    /\ recommendations # <<>>
    /\ plan # None
    /\ report # None

\* The level a dimension has after the tests that set it
Level(advanced, intermediate) ==
    IF advanced THEN "advanced"
    ELSE IF intermediate THEN "intermediate" ELSE "none"

\* One of the words is found in the lower-cased background of the call
Hit(words, call) == AnyIn(words, lower(call.background))

\* C11: a derived profile has, in every dimension, the highest level that a
\* test of from_background finding one of its keywords in the lower-cased
\* background gives it, and NONE where no test does: python is ADVANCED on
\* a seniority phrase with or without a python keyword, else INTERMEDIATE
\* on a python keyword; math is ADVANCED and statistics INTERMEDIATE on a
\* formal-quantitative phrase; every other hit gives INTERMEDIATE; a
\* background that no test finds anything in gives the all-NONE profile.
C11_ProfileFromBackground ==
    \A call \in profile : \A skills \in call.result :
        /\ skills.python = Level(Hit(background_senior, call),
                                 Hit(background_python, call))
        /\ skills.math = Level(Hit(background_math, call), FALSE)
        /\ skills.statistics =
               Level(FALSE, Hit(background_math, call)
                            \/ Hit(background_ds, call))
        /\ skills.ml_basics =
               Level(FALSE, Hit(background_ml, call)
                            \/ Hit(background_ds, call))
        /\ skills.deep_learning =
               Level(FALSE, Hit(background_deep_learning, call))
        /\ skills.nlp = Level(FALSE, Hit(background_nlp, call))
        /\ skills.computer_vision = Level(FALSE, Hit(background_cv, call))
        /\ skills.mlops = Level(FALSE, Hit(background_mlops, call))
        /\ (\A words \in {background_python, background_senior,
                          background_math, background_ml, background_ds,
                          background_deep_learning, background_nlp,
                          background_cv, background_mlops} :
               ~Hit(words, call)) => skills = UserSkills

\* A profile derived from a background that holds both a python keyword
\* and a seniority phrase, python ADVANCED in it
C11_Witness ==
    \E call \in profile : \E skills \in call.result :
        /\ Hit(background_python, call)
        /\ Hit(background_senior, call)
        /\ skills.python = "advanced"

\* The _score_course call of the scenario: the profile derived from a
\* background that mentions Python and machine learning, interests ["NLP"]
PythonAndMlScenario(call) ==
    /\ call.user_skills = python_and_ml_skills
    /\ call.interests = <<Lat("NLP")>>

\* The lower-cased word is in the course's name or description, whatever
\* the case there
Mentions(course, word) ==
    \/ Contains(lower(course.name), word)
    \/ Contains(lower(course.description), word)

\* C12 as stated: in the scenario a course whose prerequisites are exactly
\* {"Mashinnoe obuchenie"} has readiness 1, and every course whose name or
\* description contains "NLP" or "text" has the interest component 0.4.
C12_NlpOrTextFullInterest ==
    \A call \in scored : \A l \in call.locals :
        PythonAndMlScenario(call) =>
            /\ call.course.prerequisites = <<Cyr("Ma6innoe obu4enie")>>
                   => l.readiness_score = Frac(1, 1)
            /\ (Mentions(call.course, Lat("nlp"))
                \/ Mentions(call.course, Lat("text")))
                   => l.interest_component = Frac(4, 10)

\* C12 amended: in the scenario a course whose prerequisites are exactly
\* {"Mashinnoe obuchenie"} has readiness 1, and every course whose name or
\* description contains "NLP" in any case has the interest component 0.4.
C12_NlpFullInterest ==
    \A call \in scored : \A l \in call.locals :
        PythonAndMlScenario(call) =>
            /\ call.course.prerequisites = <<Cyr("Ma6innoe obu4enie")>>
                   => l.readiness_score = Frac(1, 1)
            /\ Mentions(call.course, Lat("nlp"))
                   => l.interest_component = Frac(4, 10)

\* The scenario's call on a course named with "NLP" in upper case, both of
\* whose prerequisites (Python, machine learning) the profile meets
C12_Witness ==
    \E call \in scored : \E l \in call.locals :
        /\ PythonAndMlScenario(call)
        /\ Contains(call.course.name, Lat("NLP"))
        /\ Len(call.course.prerequisites) = 2
        /\ l.interest_component = Frac(4, 10)
        /\ l.readiness_score = Frac(1, 1)

\* The records of a source that was read as a JSON object
Records(file) ==
    IF file.status = "ok" /\ file.json = "object"
    THEN Get(file.data, "courses", <<>>)
    ELSE <<>>

\* The optional field is absent from the record, and the course loaded
\* from it has the default
DefaultTaken(record, key, loaded, default) ==
    key \notin DOMAIN record => loaded = default

\* The course was loaded with the default of every optional field that its
\* record lacks
DefaultsTaken(record, course) ==
    /\ DefaultTaken(record, "semester", course.semester, 1)
    /\ DefaultTaken(record, "credits", course.credits, 3)
    /\ DefaultTaken(record, "course_type", course.course_type, required)
    /\ DefaultTaken(record, "description", course.description, <<>>)
    /\ DefaultTaken(record, "prerequisites", course.prerequisites, <<>>)
    /\ DefaultTaken(record, "skills", course.skills_gained, <<>>)

\* C13: over sources whose records all have a name, the loader does not
\* raise and no later get_study_plan or format_recommendations call raises;
\* a course loaded from a record has the default (semester 1, credits 3,
\* kind required, empty description, prerequisites and skills) of every
\* optional field the record lacks; and a course loaded from a record
\* without a kind is not elective and is in no recommendation list.
C13_OptionalFieldsNeverRaise ==
    LET records == Records(files[1]) \o Records(files[2]) IN
    /\ (files[1] # JsonArray /\ files[2] # JsonArray) => engine # "raised"
    /\ \A p \in plan : ~p.raised
    /\ \A r \in report : ~r.raised
    /\ (engine = "ready" /\ records # <<>>) =>
           /\ Len(courses) = Len(records)
           /\ \A k \in 1..Len(records) :
                  /\ DefaultsTaken(records[k], courses[k])
                  /\ "course_type" \notin DOMAIN records[k] =>
                         /\ courses[k].course_type # elective
                         /\ \A i \in 1..Len(recommendations) :
                                recommendations[i].course # courses[k]

\* C14: every course of the catalog the engine holds, loaded or seed, has
\* semester >= 1 and credits >= 0, and no get_study_plan call on a list
\* recommend_courses returned, for a horizon >= 1, raises.
C14_TermsAndCreditsValid ==
    /\ \A k \in 1..Len(courses) :
           /\ courses[k].semester >= 1
           /\ courses[k].credits >= 0
    /\ \A p \in plan : p.semesters >= 1 => ~p.raised

\* The places of the text at which the word starts
Occurrences(text, word) ==
    {i \in 1..(Len(text) - Len(word) + 1) :
        SubSeq(text, i, i + Len(word) - 1) = word}

\* What opens the block of a recommendation: the end of its title line
\* and its program line
BlockOpening(rec) ==
    Lat(" **") \o rec.course.name \o Lat("**") \o <<10>>
    \o program_label \o rec.course.program \o <<10>>

\* C15: a format_recommendations call returns a text; the text is the
\* "no results" message if and only if the list is empty; for a list that
\* is not empty the text has one block for each recommendation (one score
\* line each, the opening of each recommendation's block once), the blocks
\* standing in the order of the list.
C15_NoResultsIffEmpty ==
    \A r \in report :
        /\ ~r.raised
        /\ r.text = no_recommendations <=> recommendations = <<>>
        /\ recommendations # <<>> =>
               /\ Cardinality(Occurrences(r.text, score_label))
                      = Len(recommendations)
               /\ \A i \in 1..Len(recommendations) :
                      Cardinality(Occurrences(r.text,
                          BlockOpening(recommendations[i]))) = 1
               /\ \A i \in 1..(Len(recommendations) - 1) :
                      \A a \in Occurrences(r.text,
                                   BlockOpening(recommendations[i])),
                         b \in Occurrences(r.text,
                                   BlockOpening(recommendations[i + 1])) :
                          a < b

\* The keyword groups of _check_prerequisites, each with the dimension it
\* is answered by
PrereqGroups ==
    <<[words |-> <<prereq_python>>, dimension |-> "python"],
      [words |-> prereq_ml, dimension |-> "ml_basics"],
      [words |-> prereq_deep, dimension |-> "deep_learning"],
      [words |-> prereq_statistics, dimension |-> "statistics"],
      [words |-> prereq_math, dimension |-> "math"]>>

\* The groups that match the label's case-folded text
MatchingGroups(label) ==
    {g \in 1..Len(PrereqGroups) : AnyIn(PrereqGroups[g].words, lower(label))}

\* The labels, by position, of which some / every matching group is one
\* whose dimension the profile has at INTERMEDIATE or ADVANCED
CoveredBySome(prerequisites, user_skills) ==
    {i \in 1..Len(prerequisites) :
        \E g \in MatchingGroups(prerequisites[i]) :
            IsSkilled(user_skills[PrereqGroups[g].dimension])}
CoveredByAll(prerequisites, user_skills) ==
    {i \in 1..Len(prerequisites) :
        /\ MatchingGroups(prerequisites[i]) # {}
        /\ \A g \in MatchingGroups(prerequisites[i]) :
               IsSkilled(user_skills[PrereqGroups[g].dimension])}

\* C16: a prerequisite label is counted as satisfied exactly when some
\* keyword group matches its case-folded text and the profile has that
\* group's dimension at INTERMEDIATE or ADVANCED, whichever of the matching
\* groups that is: the readiness of a course with prerequisites is the
\* number of such labels over the number of labels.
C16_SatisfiedByAnyMatchingGroup ==
    \A call \in scored : \A l \in call.locals :
        call.course.prerequisites # <<>> =>
            l.readiness_score =
                Frac(Cardinality(CoveredBySome(call.course.prerequisites,
                                               call.user_skills)),
                     Len(call.course.prerequisites))

\* C17: readiness is k/n for the n labels of a course with prerequisites,
\* k a whole number from 0 to n that counts no label twice: at most the
\* labels with a matching group the profile covers, at least the labels
\* all of whose matching groups it covers, so that a label no group matches
\* is never counted, not even for the all-ADVANCED profile; readiness is in
\* [0, 1]; it is 1 for a course with no prerequisites, whatever the profile.
C17_ReadinessIsFraction ==
    \A call \in scored : \A l \in call.locals :
        LET n == Len(call.course.prerequisites) IN
        /\ InUnitInterval(l.readiness_score)
        /\ n = 0 => l.readiness_score = Frac(1, 1)
        /\ n > 0 =>
               \E k \in 0..n :
                   /\ l.readiness_score = Frac(k, n)
                   /\ k <= Cardinality(CoveredBySome(
                               call.course.prerequisites, call.user_skills))
                   /\ k >= Cardinality(CoveredByAll(
                               call.course.prerequisites, call.user_skills))

\* The all-ADVANCED profile against a course one of whose two labels no
\* group matches: readiness 1/2
C17_Witness ==
    \E call \in scored : \E l \in call.locals :
        /\ \A d \in Dimensions : call.user_skills[d] = "advanced"
        /\ Len(call.course.prerequisites) = 2
        /\ \E i \in 1..2 : MatchingGroups(call.course.prerequisites[i]) = {}
        /\ l.readiness_score = Frac(1, 2)

\* C18: the interest component is 0.4 when some interest, lower-cased, is
\* in the lower-cased name or description of the course, and 0 when none
\* is; it is never above 0.4, however many interests match, and it is 0
\* for the empty interest sequence.
C18_InterestComponent ==
    \A call \in scored : \A l \in call.locals :
        /\ l.interest_component =
               (IF \E i \in 1..Len(call.interests) :
                       Mentions(call.course, lower(call.interests[i]))
                THEN Frac(4, 10) ELSE Frac(0, 1))
        /\ FracLeq(l.interest_component, Frac(4, 10))
        /\ call.interests = <<>> => l.interest_component = Frac(0, 1)

\* Three interests, two of them equal but for the case, that all match the
\* course: the component is 0.4
C18_Witness ==
    \E call \in scored : \E l \in call.locals :
        /\ Len(call.interests) = 3
        /\ lower(call.interests[1]) = lower(call.interests[2])
        /\ Len(l.interest_matches) = 3
        /\ l.interest_component = Frac(4, 10)

\* A granted-skill label of the course holds one of the words of the area
AreaMatched(words, course) ==
    \E i \in 1..Len(course.skills_gained) :
        AnyIn(words, lower(course.skills_gained[i]))

\* The number of growth areas the course's labels match and in which the
\* profile is NONE or BEGINNER
NewAreas(course, user_skills) ==
    Cardinality({a \in {<<growth_nlp, "nlp">>, <<growth_cv, "computer_vision">>,
                        <<growth_deep, "deep_learning">>,
                        <<growth_mlops, "mlops">>} :
                    /\ AreaMatched(a[1], course)
                    /\ user_skills[a[2]] \in {"none", "beginner"}})

\* C19: growth is 1/2 for a course with no granted-skill labels and
\* otherwise min(k, 2) / 2, k being the number of growth areas (NLP,
\* computer vision, deep learning, deployment) that the labels match and in
\* which the profile is NONE or BEGINNER; its values are 0, 1/2 and 1.
C19_GrowthPotential ==
    \A call \in scored : \A l \in call.locals :
        /\ l.growth_score =
               (IF call.course.skills_gained = <<>> THEN Frac(1, 2)
                ELSE Frac(Min(NewAreas(call.course, call.user_skills), 2), 2))
        /\ l.growth_score \in {Frac(0, 1), Frac(1, 2), Frac(1, 1)}

\* A course whose labels match three areas, the profile a beginner in all
\* three and skilled in none: growth is 1, not 3/2
C19_Witness ==
    \E call \in scored : \E l \in call.locals :
        /\ NewAreas(call.course, call.user_skills) = 3
        /\ l.growth_score = Frac(1, 1)

\* The number of high-demand phrases in the lower-cased "name description"
DemandPhrases(course) ==
    Cardinality({j \in 1..Len(high_value_keywords) :
        Contains(lower(course.name \o Lat(" ") \o course.description),
                 high_value_keywords[j])})

\* C20: the score is interest + 0.3 * readiness + 0.2 * growth
\* + 0.1 * career, interest being the component capped at 0.4, readiness and
\* growth the sub-scores in [0, 1], and career min(c, 3) / 3 for the c
\* high-demand phrases found in the name and description.
C20_ScoreIsWeightedSum ==
    \A call \in scored : \A l \in call.locals : \A result \in call.result :
        /\ result.score =
               FracAdd(l.interest_component,
               FracAdd(FracMul(Frac(3, 10), l.readiness_score),
               FracAdd(FracMul(Frac(2, 10), l.growth_score),
                       FracMul(Frac(1, 10), l.career_score))))
        /\ FracLeq(l.interest_component, Frac(4, 10))
        /\ InUnitInterval(l.readiness_score)
        /\ InUnitInterval(l.growth_score)
        /\ l.career_score = Frac(Min(DemandPhrases(call.course), 3), 3)

\* A score to which all four terms contribute, readiness and growth with
\* different values and career at its cap with four phrases found
C20_Witness ==
    \E call \in scored : \E l \in call.locals : \E result \in call.result :
        /\ l.interest_component = Frac(4, 10)
        /\ l.readiness_score = Frac(1, 1)
        /\ l.growth_score = Frac(1, 2)
        /\ DemandPhrases(call.course) = 4
        /\ result.score = Frac(9, 10)

\* The clauses a reasoning can hold, in the claimed order, each with the
\* condition under which it qualifies
Clauses(l) ==
    <<[text |-> reason_interests \o Join(Lat(", "), l.interest_matches),
       on |-> l.interest_matches # <<>>],
      [text |-> reason_good_base,
       on |-> FracLess(Frac(7, 10), l.readiness_score)],
      [text |-> reason_preparation,
       on |-> FracLess(l.readiness_score, Frac(3, 10))],
      [text |-> reason_new_skills,
       on |-> FracLess(Frac(7, 10), l.growth_score)],
      [text |-> reason_demand,
       on |-> FracLess(Frac(7, 10), l.career_score)]>>

RECURSIVE SumLen(_)
SumLen(clauses) ==
    IF clauses = <<>> THEN 0
    ELSE (IF Head(clauses).on THEN Len(Head(clauses).text) + 2 ELSE 0)
         + SumLen(Tail(clauses))

\* C21: the reasoning is never empty; it holds the clause of a factor
\* exactly when the factor qualifies (interests matched, readiness > 0.7
\* or < 0.3 and never both, growth > 0.7, career > 0.7), the clauses
\* standing in this order, joined by "; " and nothing else; it is the
\* general statement exactly when no factor qualifies.
C21_ReasoningClauses ==
    \A call \in scored : \A l \in call.locals : \A result \in call.result :
        /\ result.reasoning # <<>>
        /\ \A c \in 1..5 :
               Clauses(l)[c].on
                   <=> Occurrences(result.reasoning, Clauses(l)[c].text) # {}
        /\ \A c, d \in 1..5 :
               c < d =>
                   \A a \in Occurrences(result.reasoning, Clauses(l)[c].text),
                      b \in Occurrences(result.reasoning, Clauses(l)[d].text) :
                       a < b
        /\ ~(Clauses(l)[2].on /\ Clauses(l)[3].on)
        /\ result.reasoning = reason_general
               <=> \A c \in 1..5 : ~Clauses(l)[c].on
        /\ (\E c \in 1..5 : Clauses(l)[c].on)
               => Len(result.reasoning) = SumLen(Clauses(l)) - 2

\* A reasoning with four clauses: interests matched, readiness, growth and
\* career all above 0.7
C21_Witness ==
    \E call \in scored : \E l \in call.locals : \E result \in call.result :
        /\ \A c \in {1, 2, 4, 5} : Clauses(l)[c].on
        /\ Len(l.interest_matches) >= 2
        /\ Occurrences(result.reasoning, Lat("; ")) # {}

\* C22: two recommendations of a returned list that have the same score
\* stand in the order their courses have in the catalog.
C22_TiesInCatalogOrder ==
    \A i, j \in 1..Len(recommendations) :
        (i < j /\ recommendations[i].score = recommendations[j].score) =>
            \E k, n \in 1..Len(courses) :
                /\ k < n
                /\ courses[k] = recommendations[i].course
                /\ courses[n] = recommendations[j].course

\* A returned list with two recommendations of equal score behind a
\* recommendation whose course comes after theirs in the catalog
C22_Witness ==
    \E i, j, h \in 1..Len(recommendations) :
        /\ h < i
        /\ i < j
        /\ recommendations[i].score = recommendations[j].score
        /\ FracLess(recommendations[i].score, recommendations[h].score)
        /\ \E k, n \in 1..Len(courses) :
               /\ k < n
               /\ courses[k] = recommendations[i].course
               /\ courses[n] = recommendations[h].course

\* C23: in every bucket of a mapping get_study_plan returns, a course that
\* stands before another is the course of a recommendation that stands
\* before the other's in the list passed in, and so has the smaller
\* priority number.
C23_BucketsInListOrder ==
    \A p \in plan :
        ~p.raised =>
            \A t \in DOMAIN p.result :
                \A a, b \in 1..Len(p.result[t]) :
                    a < b =>
                        \E i, j \in 1..Len(recommendations) :
                            /\ i < j
                            /\ recommendations[i].course = p.result[t][a]
                            /\ recommendations[j].course = p.result[t][b]
                            /\ recommendations[i].priority
                                   < recommendations[j].priority

\* A returned plan with a bucket of two courses or more, from a list that
\* also has a course of another semester
C23_Witness ==
    \E p \in plan :
        /\ ~p.raised
        /\ \E t \in DOMAIN p.result : Len(p.result[t]) >= 2
        /\ \E i, j \in 1..Len(recommendations) :
               recommendations[i].course.semester
                   # recommendations[j].course.semester

\* The title line of the section of a semester, and the line of a course
SectionTitle(t) ==
    <<10>> \o plan_semester_label \o Decimal(t) \o Lat(":**") \o <<10>>
CourseLine(course) == <<10>> \o plan_course_label \o course.name \o <<10>>

\* The recommendations, by position, whose semester is t
InSemester(t) ==
    {i \in 1..Len(recommendations) : recommendations[i].course.semester = t}

\* The place in the text where the section of semester t ends: the title
\* of the next section there is, or the end of the text
SectionEnd(text, t) ==
    IF \E u \in (t + 1)..DefaultSemesters :
           Occurrences(text, SectionTitle(u)) # {}
    THEN CHOOSE q \in Occurrences(text, SectionTitle(
                    CHOOSE u \in (t + 1)..DefaultSemesters :
                        /\ Occurrences(text, SectionTitle(u)) # {}
                        /\ \A w \in (t + 1)..(u - 1) :
                               Occurrences(text, SectionTitle(w)) = {})) : TRUE
    ELSE Len(text) + 1

\* C24: a report returned with the plan has, after the plan header, one
\* section for each semester 1..4 that some recommendation has and none
\* for any other, the sections in ascending semester order; the section of a
\* semester lists the names of that semester's recommendations in list
\* (priority) order; the course lines are as many as the recommendations
\* with a semester within 1..4, so each of these is in one section only and
\* one beyond the horizon is in none.
C24_PlanSections ==
    \A r \in report :
        (r.include_plan /\ ~r.raised /\ recommendations # <<>>) =>
            /\ Cardinality(Occurrences(r.text, plan_header_line)) = 1
            /\ \A t \in 1..DefaultSemesters :
                   Cardinality(Occurrences(r.text, SectionTitle(t)))
                       = (IF InSemester(t) # {} THEN 1 ELSE 0)
            /\ Cardinality(Occurrences(r.text, plan_semester_label))
                   = Cardinality({t \in 1..DefaultSemesters :
                                     InSemester(t) # {}})
            /\ \A t, u \in 1..DefaultSemesters :
                   t < u =>
                       \A a \in Occurrences(r.text, SectionTitle(t)),
                          b \in Occurrences(r.text, SectionTitle(u)) : a < b
            /\ Cardinality(Occurrences(r.text, <<10>> \o plan_course_label))
                   = Cardinality(UNION {InSemester(t) :
                                           t \in 1..DefaultSemesters})
            /\ \A t \in 1..DefaultSemesters : \A i \in InSemester(t) :
                   \E q \in Occurrences(r.text,
                                CourseLine(recommendations[i].course)) :
                       /\ \A a \in Occurrences(r.text, SectionTitle(t)) :
                              a < q
                       /\ q < SectionEnd(r.text, t)
                       /\ \A j \in InSemester(t) :
                              i < j =>
                                  \E w \in Occurrences(r.text,
                                      CourseLine(recommendations[j].course)) :
                                      /\ q < w
                                      /\ w < SectionEnd(r.text, t)

\* A report with the plan that has two sections, one of two courses, no
\* section for a semester in between, and a recommendation beyond the
\* horizon
C24_Witness ==
    \E r \in report :
        /\ r.include_plan
        /\ ~r.raised
        /\ \E t \in 1..DefaultSemesters : Cardinality(InSemester(t)) >= 2
        /\ Cardinality(Occurrences(r.text, plan_semester_label)) >= 2

\* The positions of the catalog that pass the filter of the request and
\* whose course is in no recommendation
LeftOut(program) ==
    {k \in Filtered(program) :
        \A i \in 1..Len(recommendations) :
            recommendations[i].course # courses[k]}

\* The score _score_course gives the course for the request
ScoreFor(course, r) ==
    EvaluatedScores[<<course, EvaluatedSkills[r.user_background],
                      r.interests>>].score

\* C25: for every limit >= 1, no course that passes the filter and is left
\* out of the list returned by recommend_courses has a score strictly
\* greater than the score of a course in the list.
C25_TruncationKeepsBest ==
    \A r \in request :
        \A k \in LeftOut(r.program) :
            \A i \in 1..Len(recommendations) :
                ~FracLess(recommendations[i].score, ScoreFor(courses[k], r))

\* A call that leaves out a course scoring strictly less than the last
\* course returned, though it stands before a returned course in the
\* catalog
C25_Witness ==
    \E r \in request :
        /\ recommendations # <<>>
        /\ \E k \in LeftOut(r.program) :
               /\ FracLess(ScoreFor(courses[k], r),
                           recommendations[Len(recommendations)].score)
               /\ \E l \in Filtered(r.program) \ LeftOut(r.program) : k < l

\* The source is missing, is no JSON, or is a JSON object
Loadable(file) == file.status # "ok" \/ file.json = "object"

\* The program name the records of a source are loaded under
SourceName(file) == Get(file.data, "name", Lat("Unknown"))

\* The courses of the seed catalog
SeedCourses ==
    {_get_default_courses[n] : n \in 1..Len(_get_default_courses)}

\* C26: over sources each of which is missing, is no JSON or is a JSON
\* object, the engine is built and its catalog is the seed catalog when the
\* sources give no record, and otherwise has one course for each record of
\* the sources that were read, the records of ai_program.json before those
\* of ai_product_program.json and each in its order in the source, under
\* the name of its source, with no seed course among them; a source that is
\* missing or no JSON gives none and the other source's records are loaded
\* all the same.
C26_SeedOrSourcesInOrder ==
    (engine # "new" /\ Loadable(files[1]) /\ Loadable(files[2])) =>
        /\ engine = "ready"
        /\ IF Records(files[1]) \o Records(files[2]) = <<>>
           THEN courses = _get_default_courses
           ELSE /\ Len(courses)
                       = Len(Records(files[1])) + Len(Records(files[2]))
                /\ \A k \in 1..Len(Records(files[1])) :
                       /\ courses[k].name = Records(files[1])[k]["name"]
                       /\ courses[k].program = SourceName(files[1])
                /\ \A k \in 1..Len(Records(files[2])) :
                       /\ courses[Len(Records(files[1])) + k].name
                              = Records(files[2])[k]["name"]
                       /\ courses[Len(Records(files[1])) + k].program
                              = SourceName(files[2])
                /\ \A k \in 1..Len(courses) : courses[k] \notin SeedCourses

\* An engine built over a first source that is no JSON and a second source
\* with records, and a recommendation drawn from it
C26_Witness ==
    /\ files[1].status # "ok"
    /\ Records(files[2]) # <<>>
    /\ engine = "ready"
    /\ recommendations # <<>>

\* The update is a /recommend command or a press of the course-help button
RecommendAsked(u) ==
    \/ u.handler = "recommend_command"
    \/ u.text = Some(recommend_button)

\* C27: whatever updates the bot has handled, the update handled last made
\* a call of the recommendation engine, or was replied to with
\* recommendations or with the engine's failure, only if the stored
\* background of its user is not empty, and the call was made with that
\* background; and when it is a /recommend command or a press of the
\* course-help button of a user whose background is empty, that user's
\* state is COLLECTING_BACKGROUND, no engine call was made and the reply asks
\* for the background.
C27_EngineOnlyWithBackground ==
    \A u \in update :
        /\ (u.recommended # None
              \/ u.reply \in {"recommendations", "recommend_error"}) =>
               /\ u.user_id \in DOMAIN user_profiles
               /\ Truthy(user_profiles[u.user_id].background)
               /\ u.recommended # None
               /\ Value(u.recommended).user_background
                      = user_profiles[u.user_id].background
        /\ RecommendAsked(u) =>
               /\ u.user_id \in DOMAIN user_profiles
               /\ ~Truthy(user_profiles[u.user_id].background) =>
                      /\ user_profiles[u.user_id].state
                             = "COLLECTING_BACKGROUND"
                      /\ u.recommended = None
                      /\ u.reply = "ask_background"

\* A press of the course-help button answered with recommendations drawn
\* for the stored background and interests, while another user, asked for
\* the background, has given none
C27_Witness ==
    \E u \in update :
        /\ u.text = Some(recommend_button)
        /\ u.reply = "recommendations"
        /\ u.recommended # None
        /\ Value(u.recommended).interests # default_interests
        /\ \E other \in DOMAIN user_profiles :
               /\ other # u.user_id
               /\ user_profiles[other].state = "COLLECTING_BACKGROUND"
               /\ user_profiles[other].background = None

\* C28: whatever updates the bot has handled, the state of every profile
\* is START, COLLECTING_BACKGROUND, COLLECTING_INTERESTS or READY; it is
\* COLLECTING_INTERESTS or READY only with the background set, and
\* COLLECTING_BACKGROUND only with the background not set.
C28_DialogStates ==
    \A user_id \in DOMAIN user_profiles :
        /\ user_profiles[user_id].state \in DialogState
        /\ user_profiles[user_id].state
               \in {"START", "COLLECTING_BACKGROUND",
                    "COLLECTING_INTERESTS", "READY"}
        /\ user_profiles[user_id].state
               \in {"COLLECTING_INTERESTS", "READY"} =>
                   Truthy(user_profiles[user_id].background)
        /\ user_profiles[user_id].state = "COLLECTING_BACKGROUND" =>
               ~Truthy(user_profiles[user_id].background)

\* A /reset handled for a user whose profile is new again, while the other
\* user, with background and interests given, is READY
C28_Witness ==
    \E u \in update :
        /\ u.handler = "reset_command"
        /\ user_profiles[u.user_id] = UserProfile(u.user_id)
        /\ \E other \in DOMAIN user_profiles :
               /\ user_profiles[other].state = "READY"
               /\ user_profiles[other].background # None
               /\ user_profiles[other].interests # <<>>

\* What a step that handles a message does to the profile of its user: a
\* menu label leaves background and interests as they were, and the state
\* too when that is COLLECTING_BACKGROUND or COLLECTING_INTERESTS; a text
\* that is no menu label answers the pending question.
MenuLabelStep ==
    \A u \in update' :
        u.text # None =>
            IF Value(u.text) \in MenuButtons
            THEN /\ user_profiles'[u.user_id].background
                        = get_user_profile(u.user_id)[u.user_id].background
                 /\ user_profiles'[u.user_id].interests
                        = get_user_profile(u.user_id)[u.user_id].interests
                 /\ get_user_profile(u.user_id)[u.user_id].state
                        \in {"COLLECTING_BACKGROUND",
                             "COLLECTING_INTERESTS"} =>
                        user_profiles'[u.user_id].state
                            = get_user_profile(u.user_id)[u.user_id].state
            ELSE /\ get_user_profile(u.user_id)[u.user_id].state
                        = "COLLECTING_BACKGROUND" =>
                        /\ user_profiles'[u.user_id].background = u.text
                        /\ user_profiles'[u.user_id].state
                               = "COLLECTING_INTERESTS"
                 /\ get_user_profile(u.user_id)[u.user_id].state
                        = "COLLECTING_INTERESTS" =>
                        user_profiles'[u.user_id].state = "READY"

\* C29: a message whose text is one of the three menu labels is stored
\* neither as background nor as interests in any state; handled in state
\* COLLECTING_BACKGROUND or COLLECTING_INTERESTS it leaves state, background
\* and interests as they were, and the next text that is no menu label
\* answers the pending question.
C29_MenuLabelNeverStored == [][MenuLabelStep]_vars

\* The course-help button pressed by a user who is asked for the interests,
\* and is asked for them still
C29_Witness ==
    \E u \in update :
        /\ u.text = Some(recommend_button)
        /\ user_profiles[u.user_id].state = "COLLECTING_INTERESTS"
        /\ user_profiles[u.user_id].interests = <<>>
        /\ u.reply = "recommendations"

\* The list is made of (user, assistant) pairs, at most CacheLimit messages
PairsWithinLimit(messages) ==
    /\ Len(messages) <= 20
    /\ Len(messages) % 2 = 0
    /\ \A k \in 1..Len(messages) :
           messages[k].role = (IF k % 2 = 1 THEN "user" ELSE "assistant")

\* What a get_answer or clear_user_history step does to the cache
CacheStep ==
    /\ \A n \in DOMAIN conversation_cache' :
           PairsWithinLimit(conversation_cache'[n])
    /\ \A a \in answer' :
           a.op = "get_answer" =>
               IF \/ a.outcome \in {"rejected", "failed"}
                  \/ a.user_id = None
               THEN conversation_cache' = conversation_cache
               ELSE \A n \in DOMAIN conversation_cache :
                        n # Value(a.user_id) =>
                            /\ n \in DOMAIN conversation_cache'
                            /\ conversation_cache'[n] = conversation_cache[n]

\* C30: after every get_answer and clear_user_history call the cached list
\* of each user has at most 20 messages, an even number of them, with the
\* roles user, assistant, user, assistant, ... in this order; a call that
\* is rejected as irrelevant or whose generation fails leaves the cache as
\* it was, and so does a call with no user id; a call that is answered
\* leaves the lists of the other users as they were.
C30_CachePairsWithinLimit == [][CacheStep]_vars

\* An answered call that cut the list of its user back to 20 messages,
\* while another user has a shorter list
C30_Witness ==
    \E a \in answer :
        /\ a.op = "get_answer"
        /\ a.outcome = "answered"
        /\ a.trimmed
        /\ Len(conversation_cache[Value(a.user_id)]) = 20
        /\ \E n \in DOMAIN conversation_cache :
               /\ n # Value(a.user_id)
               /\ Len(conversation_cache[n]) = 2

=============================================================================
